---- MODULE Spec2Model ----
(***************************************************************************)
(* Model of the Teleport resource cache (lib/cache): typed collections of  *)
(* backend resources, the readiness state of the cache, the event-apply    *)
(* task and the per-kind read accessors with their backend fallback.       *)
(*                                                                         *)
(* Strings are sequences of character codes, compared lexicographically,   *)
(* so store keys, composite keys and pagination cursors are real strings.  *)
(***************************************************************************)
EXTENDS Naturals, Integers, Sequences, FiniteSets, TLC

(***************************************************************************)
(* Bounds of the model.                                                    *)
(***************************************************************************)
\* number of distinct resource names in the event-driven specification
MaxName == 2
\* number of distinct host IDs
MaxHost == 2
\* resources the backend holds at once in the event-driven specification
MaxRes == 2
\* events in flight between the backend and the cache
MaxQueue == 1
\* largest page size a caller asks for
MaxLimit == 4
\* number of distinct resource names in the paging specification
MaxPageName == 5
\* events in flight while the event stream is under observation
MaxBacklog == 2
\* events sent on one stream while it is under observation
MaxLog == 3
\* pages a caller of the multi-kind dispatcher asks for in one session
MaxPages == 4
\* health checks a database has stored at the start
MaxChecks == 4
\* largest part number of a file session upload
MaxPart == 2

\* defaults.DefaultChunkSize, scaled down from 1000 so that a store of a few
\* resources fills more than one default page and a limit can exceed it
DefaultChunkSize == 3

(***************************************************************************)
(* Strings.                                                                *)
(***************************************************************************)
\* the empty string
Empty == <<>>

\* the character "/" (sorts below every name character)
Slash == 0

RECURSIVE LexLess(_, _)
\* a < b in Go's string order
LexLess(a, b) ==
    IF b = <<>> THEN FALSE
    ELSE IF a = <<>> THEN TRUE
    ELSE IF Head(a) < Head(b) THEN TRUE
    ELSE IF Head(a) > Head(b) THEN FALSE
    ELSE LexLess(Tail(a), Tail(b))

LexLeq(a, b) == a = b \/ LexLess(a, b)

\* the name whose distinguishing character is n ("a", "b", ..; "svc-1", ..)
Name(n) == <<n>>

Names == {Name(n) : n \in 1..MaxName}
PageNames == {Name(n) : n \in 1..MaxPageName}
Hosts == {Name(n) : n \in 1..MaxHost}
\* the payload of a resource: its labels, one of two values; a value built
\* from a bare header carries none
LabelValues == {"dev", "prod"}
NoLabel == ""

(***************************************************************************)
(* Resource kinds (api/types constants, as used by the collections).       *)
(***************************************************************************)
KindRole == "role"
KindDatabase == "db"
KindDatabaseServer == "db_server"
KindDatabaseService == "db_service"
KindApp == "app"
KindAppServer == "app_server"
KindKubeServer == "kube_server"
KindKubernetesCluster == "kube_cluster"
KindWindowsDesktopService == "windows_desktop_service"
KindWindowsDesktop == "windows_desktop"
KindNode == "node"
KindUserGroup == "user_group"

\* the kinds that have a collection in this model
Kinds == {KindRole, KindDatabase, KindDatabaseServer, KindDatabaseService,
          KindApp, KindAppServer, KindKubeServer, KindKubernetesCluster,
          KindWindowsDesktopService, KindWindowsDesktop, KindNode}

\* kinds whose resources live on a host and carry a host ID
HostKinds == {KindDatabaseServer, KindAppServer, KindKubeServer, KindWindowsDesktop}

\* a resource: kind, name, host ID (empty unless per-host) and its payload
Res(k, n, h, l) == [kind |-> k, name |-> n, hostID |-> h, labels |-> l]

ResourcesOver(k, names) ==
    IF k \in HostKinds
    THEN {Res(k, n, h, l) : n \in names, h \in Hosts, l \in LabelValues}
    ELSE {Res(k, n, Empty, l) : n \in names, l \in LabelValues}

(***************************************************************************)
(* Collections: the store index of each kind and its header transform.     *)
(***************************************************************************)
\* hostID + "/" + name
HostKey(r) == r.hostID \o <<Slash>> \o r.name

\* the "name" index each new*Collection gives its store
roleKey(r) == r.name
databaseKey(r) == r.name
databaseServerKey(r) == r.name
databaseServiceKey(r) == r.name
appKey(r) == r.name
appServerKey(r) == r.name
kubeServerKey(r) == r.name
kubeClusterKey(r) == r.name
windowsDesktopServiceKey(r) == r.name
windowsDesktopKey(r) == r.hostID \o <<Slash>> \o r.name
\* the node collection is not among the sources; nodes are indexed by name
nodeKey(r) == r.name

\* the key of resource r in the store of kind k
KeyOf(k, r) ==
    CASE k = KindRole -> roleKey(r)
      [] k = KindDatabase -> databaseKey(r)
      [] k = KindDatabaseServer -> databaseServerKey(r)
      [] k = KindDatabaseService -> databaseServiceKey(r)
      [] k = KindApp -> appKey(r)
      [] k = KindAppServer -> appServerKey(r)
      [] k = KindKubeServer -> kubeServerKey(r)
      [] k = KindKubernetesCluster -> kubeClusterKey(r)
      [] k = KindWindowsDesktopService -> windowsDesktopServiceKey(r)
      [] k = KindWindowsDesktop -> windowsDesktopKey(r)
      [] OTHER -> nodeKey(r)

\* a delete event's envelope: kind, name and description (the host ID of a
\* per-host resource)
Header(k, n, d) == [kind |-> k, name |-> n, description |-> d]

\* the header the event stream sends for the deletion of r
HeaderOf(r) == Header(r.kind, r.name, r.hostID)

\* headerTransform of each collection
roleHeaderTransform(hdr) == Res(KindRole, hdr.name, Empty, NoLabel)
databaseHeaderTransform(hdr) == Res(KindDatabase, hdr.name, Empty, NoLabel)
databaseServerHeaderTransform(hdr) ==
    Res(KindDatabaseServer, hdr.name, hdr.description, NoLabel)
databaseServiceHeaderTransform(hdr) == Res(KindDatabase, hdr.name, Empty, NoLabel)
appHeaderTransform(hdr) == Res(KindApp, hdr.name, Empty, NoLabel)
appServerHeaderTransform(hdr) ==
    Res(KindAppServer, hdr.name, hdr.description, NoLabel)
kubeServerHeaderTransform(hdr) ==
    Res(KindKubeServer, hdr.name, hdr.description, NoLabel)
kubeClusterHeaderTransform(hdr) ==
    Res(KindKubernetesCluster, hdr.name, Empty, NoLabel)
windowsDesktopServiceHeaderTransform(hdr) ==
    Res(KindWindowsDesktopService, hdr.name, Empty, NoLabel)
windowsDesktopHeaderTransform(hdr) ==
    Res(KindWindowsDesktop, hdr.name, hdr.description, NoLabel)
nodeHeaderTransform(hdr) == Res(KindNode, hdr.name, Empty, NoLabel)

\* headerTransform of the collection of kind k
HeaderTransform(k, hdr) ==
    CASE k = KindRole -> roleHeaderTransform(hdr)
      [] k = KindDatabase -> databaseHeaderTransform(hdr)
      [] k = KindDatabaseServer -> databaseServerHeaderTransform(hdr)
      [] k = KindDatabaseService -> databaseServiceHeaderTransform(hdr)
      [] k = KindApp -> appHeaderTransform(hdr)
      [] k = KindAppServer -> appServerHeaderTransform(hdr)
      [] k = KindKubeServer -> kubeServerHeaderTransform(hdr)
      [] k = KindKubernetesCluster -> kubeClusterHeaderTransform(hdr)
      [] k = KindWindowsDesktopService -> windowsDesktopServiceHeaderTransform(hdr)
      [] k = KindWindowsDesktop -> windowsDesktopHeaderTransform(hdr)
      [] OTHER -> nodeHeaderTransform(hdr)

(***************************************************************************)
(* Store: the latest value per key, enumerated in key order.               *)
(***************************************************************************)
\* error values
Nil == "nil"
ErrNotFound == "NotFound"
ErrClosed == "cache is closed"
ErrBadParameter == "BadParameter"
ErrNotImplemented == "NotImplemented"
ErrUpstream == "UpstreamError"

\* store.put: upsert by key
StorePut(s, k, r) == {x \in s : KeyOf(k, x) # KeyOf(k, r)} \cup {r}

\* store.delete: remove the entry stored under r's key
StoreDelete(s, k, r) == {x \in s : KeyOf(k, x) # KeyOf(k, r)}

\* store.get(index "name", key)
StoreGet(s, k, key) ==
    IF \E x \in s : KeyOf(k, x) = key
    THEN [val |-> CHOOSE x \in s : KeyOf(k, x) = key, err |-> Nil]
    ELSE [val |-> Res(k, Empty, Empty, NoLabel), err |-> ErrNotFound]

\* store.len
StoreLen(s) == Cardinality(s)

RECURSIVE SortByKey(_, _)
\* the entries of s in ascending key order
SortByKey(s, k) ==
    IF s = {} THEN <<>>
    ELSE LET m == CHOOSE x \in s : \A y \in s : LexLeq(KeyOf(k, x), KeyOf(k, y))
         IN <<m>> \o SortByKey(s \ {m}, k)

\* store.resources(index "name", start, ""): the entries whose key is at or
\* after start, in ascending key order
StoreResources(s, k, start) ==
    SortByKey({x \in s : LexLeq(start, KeyOf(k, x))}, k)

\* no two entries of a store share a key
UniqueKeys(s, k) == \A x, y \in s : KeyOf(k, x) = KeyOf(k, y) => x = y

(***************************************************************************)
(* Construction: each new*Collection constructor takes the upstream        *)
(* service its fetcher reads and the watch kind, and refuses a nil service.*)
(***************************************************************************)
\* the upstream service a constructor takes (the type of its first parameter)
Dependency(k) ==
    CASE k = KindRole -> "Access"
      [] k = KindDatabase -> "Databases"
      [] k = KindApp -> "Apps"
      [] k = KindKubernetesCluster -> "Kubernetes"
      [] k = KindWindowsDesktop -> "WindowsDesktops"
      [] OTHER -> "Presence"

\* types.WatchKind
WatchKind(k, secrets) == [kind |-> k, loadSecrets |-> secrets]
NoWatch == WatchKind("", FALSE)

\* a constructor returns a collection with a new store and the watch kind
Built(w) ==
    [err |-> Nil, missing |-> "", built |-> TRUE, store |-> {}, watch |-> w]

\* or no collection and trace.BadParameter("missing parameter " + param)
Refused(param) ==
    [err |-> ErrBadParameter, missing |-> param, built |-> FALSE, store |-> {},
     watch |-> NoWatch]

newRoleCollection(a, w) == IF a = Nil THEN Refused("Access") ELSE Built(w)
newDatabaseCollection(p, w) == IF p = Nil THEN Refused("Databases") ELSE Built(w)
newDatabaseServerCollection(p, w) ==
    IF p = Nil THEN Refused("Presence") ELSE Built(w)
newDatabaseServiceCollection(p, w) ==
    IF p = Nil THEN Refused("Databases") ELSE Built(w)
newAppCollection(p, w) == IF p = Nil THEN Refused("Apps") ELSE Built(w)
newAppServerCollection(p, w) == IF p = Nil THEN Refused("Presence") ELSE Built(w)
newKubernetesServerCollection(p, w) ==
    IF p = Nil THEN Refused("Presence") ELSE Built(w)
newKubernetesClusterCollection(k, w) ==
    IF k = Nil THEN Refused("Kubernetes") ELSE Built(w)
newWindowsDesktopServiceCollection(p, w) ==
    IF p = Nil THEN Refused("Presence") ELSE Built(w)
newWindowsDesktopCollection(d, w) == IF d = Nil THEN Refused("Apps") ELSE Built(w)

\* the kinds whose constructor is among the sources
BuiltKinds == Kinds \ {KindNode}

\* the constructor of the collection of kind k
newCollection(k, dep, w) ==
    CASE k = KindRole -> newRoleCollection(dep, w)
      [] k = KindDatabase -> newDatabaseCollection(dep, w)
      [] k = KindDatabaseServer -> newDatabaseServerCollection(dep, w)
      [] k = KindDatabaseService -> newDatabaseServiceCollection(dep, w)
      [] k = KindApp -> newAppCollection(dep, w)
      [] k = KindAppServer -> newAppServerCollection(dep, w)
      [] k = KindKubeServer -> newKubernetesServerCollection(dep, w)
      [] k = KindKubernetesCluster -> newKubernetesClusterCollection(dep, w)
      [] k = KindWindowsDesktopService -> newWindowsDesktopServiceCollection(dep, w)
      [] k = KindWindowsDesktop -> newWindowsDesktopCollection(dep, w)
      [] OTHER -> Built(w)

\* a constructor call: what it was given and what it returned
Constructed(dep, w, res) == [called |-> TRUE, dep |-> dep, w |-> w, res |-> res]
\* a collection not constructed yet
Unbuilt == [called |-> FALSE, dep |-> Nil, w |-> NoWatch, res |-> Refused("")]
\* every collection constructed over its service, as at start-up
AllBuilt ==
    [k \in Kinds |->
        Constructed(Dependency(k), WatchKind(k, FALSE),
                    newCollection(k, Dependency(k), WatchKind(k, FALSE)))]

(***************************************************************************)
(* Requests, responses and the values handed to callers.                   *)
(***************************************************************************)
\* a value handed to a caller: shared is TRUE when it is the store's own
\* object rather than a copy of it
Item(v, sh) == [val |-> v, shared |-> sh]

\* Clone / Copy / CloneResource of a resource: a deep copy
Copy(v) == Item(v, FALSE)

\* a response: the resources, the pagination cursor and the error
Resp(items, nk, err) == [items |-> items, nextKey |-> nk, err |-> err]

\* the error-only response
Fail(err) == Resp(<<>>, Empty, err)

\* predicate expressions of a request: none, or one that does not parse
PredNone == ""
PredMalformed == "malformed"

\* a request: ResourceType (ListResources), name (Get), Limit, StartKey,
\* the label a resource must carry (NoLabel: no filter), the predicate
\* expression, and the WindowsDesktopFilter host ID (Empty: any host)
Req(t, n, lim, sk, l, p, h) ==
    [type |-> t, name |-> n, limit |-> lim, startKey |-> sk, labels |-> l,
     pred |-> p, hostID |-> h]

NoReq == Req("", Empty, 0, Empty, NoLabel, PredNone, Empty)

\* the response slot of a backend call that has not been made
NoUp == Fail("not called")

\* RoleFilter.Match, MatchResourceByFilters: the labels of the request match
MatchLabels(req, r) == req.labels = NoLabel \/ r.labels = req.labels

\* WindowsDesktopFilter.Match: the host ID of the filter, when given
MatchHost(req, r) == req.hostID = Empty \/ r.hostID = req.hostID

\* services.NewResourceExpression fails on an expression that does not parse
ParseFails(req) == req.pred = PredMalformed

\* backend.GetPaginationKey: the name, or host ID and name of a per-host kind
GetPaginationKey(r) == IF r.kind \in HostKinds THEN HostKey(r) ELSE r.name

\* the copies of a sequence of stored resources
RECURSIVE Copies(_)
Copies(seq) == IF seq = <<>> THEN <<>> ELSE <<Copy(Head(seq))>> \o Copies(Tail(seq))

\* the values of a sequence of items
Vals(items) == [i \in 1..Len(items) |-> items[i].val]

(***************************************************************************)
(* Roles (role.go).  Every accessor is given readCache (ReadCache() of its *)
(* guard), the store, the request and the response of the backend call it  *)
(* makes when it makes one; cs maps each kind to its collection's store.    *)
(***************************************************************************)
\* GetRoles appending to a slice allocated at full length: the zero values
\* come first
GetRolesPreallocated(readCache, cs, req, up) ==
    IF ~readCache THEN up
    ELSE LET seq == StoreResources(cs[KindRole], KindRole, Empty)
         IN Resp([i \in 1..Len(seq) |-> Copy(Res(KindRole, Empty, Empty, NoLabel))]
                 \o Copies(seq), Empty, Nil)

GetRoles(readCache, cs, req, up) ==
    IF ~readCache THEN up
    ELSE Resp(Copies(StoreResources(cs[KindRole], KindRole, Empty)), Empty, Nil)

RECURSIVE ListRolesLoopLastEmitted(_, _, _, _)
\* the loop of ListRoles with the cursor taken from the last role emitted
\* instead of the role the full page stopped at
ListRolesLoopLastEmitted(seq, i, req, resp) ==
    LET pageSize == IF req.limit <= 0 \/ req.limit > DefaultChunkSize
                    THEN DefaultChunkSize ELSE req.limit
    IN IF i > Len(seq) THEN resp
       ELSE IF req.labels # NoLabel /\ ~MatchLabels(req, seq[i])
            THEN ListRolesLoopLastEmitted(seq, i + 1, req, resp)
       ELSE IF Len(resp.items) = pageSize
            THEN [resp EXCEPT !.nextKey = resp.items[Len(resp.items)].val.name]
       ELSE ListRolesLoopLastEmitted(seq, i + 1, req,
                          [resp EXCEPT !.items = Append(@, Copy(seq[i]))])

RECURSIVE ListRolesLoopNextRole(_, _, _, _)
\* the loop of ListRoles testing for the full page before the filter: the
\* cursor is the next role, matching or not
ListRolesLoopNextRole(seq, i, req, resp) ==
    LET pageSize == IF req.limit <= 0 \/ req.limit > DefaultChunkSize
                    THEN DefaultChunkSize ELSE req.limit
    IN IF i > Len(seq) THEN resp
       ELSE IF Len(resp.items) = pageSize
            THEN [resp EXCEPT !.nextKey = seq[i].name]
       ELSE IF req.labels # NoLabel /\ ~MatchLabels(req, seq[i])
            THEN ListRolesLoopNextRole(seq, i + 1, req, resp)
       ELSE ListRolesLoopNextRole(seq, i + 1, req,
                          [resp EXCEPT !.items = Append(@, Copy(seq[i]))])

RECURSIVE ListRolesLoop(_, _, _, _)
\* the range loop of ListRoles over rg.store.resources("name", StartKey, "")
ListRolesLoop(seq, i, req, resp) ==
    LET pageSize == IF req.limit <= 0 \/ req.limit > DefaultChunkSize
                    THEN DefaultChunkSize ELSE req.limit
    IN IF i > Len(seq) THEN resp
       ELSE IF req.labels # NoLabel /\ ~MatchLabels(req, seq[i])
            THEN ListRolesLoop(seq, i + 1, req, resp)
       ELSE IF Len(resp.items) = pageSize
            THEN [resp EXCEPT !.nextKey = seq[i].name]
       ELSE ListRolesLoop(seq, i + 1, req,
                          [resp EXCEPT !.items = Append(@, Copy(seq[i]))])

ListRoles(readCache, cs, req, up) ==
    IF ~readCache THEN up
    ELSE ListRolesLoop(StoreResources(cs[KindRole], KindRole, req.startKey), 1, req,
                       Resp(<<>>, Empty, Nil))

\* GetRole handing on the backend's answer, its error included
GetRoleMissBackendError(err, up) ==
    IF err = ErrNotFound THEN up ELSE Fail(err)

\* GetRole giving up on a miss without asking the backend
GetRoleMissNoRetry(err, up) == Fail(err)

\* GetRole after store.get failed with err: the guard is released early, and
\* on NotFound the backend is asked; its role is returned if it has one, the
\* store's error otherwise
GetRoleMiss(err, up) ==
    IF err = ErrNotFound /\ up.err = Nil THEN up ELSE Fail(err)

GetRole(readCache, cs, req, up) ==
    IF ~readCache THEN up
    ELSE LET g == StoreGet(cs[KindRole], KindRole, req.name)
         IN IF g.err # Nil
            THEN GetRoleMiss(g.err, up)
            ELSE Resp(<<Copy(g.val)>>, Empty, Nil)

(***************************************************************************)
(* Databases, apps and Kubernetes (database.go).                           *)
(***************************************************************************)
\* GetDatabase reading the collection of apps
GetDatabaseWrongStore(readCache, cs, req, up) ==
    IF readCache
    THEN LET d == StoreGet(cs[KindApp], KindApp, req.name)
         IN IF d.err # Nil THEN Fail(d.err)
            ELSE Resp(<<Copy(d.val)>>, Empty, Nil)
    ELSE up

GetDatabase(readCache, cs, req, up) ==
    IF readCache
    THEN LET d == StoreGet(cs[KindDatabase], KindDatabase, req.name)
         IN IF d.err # Nil THEN Fail(d.err)
            ELSE Resp(<<Copy(d.val)>>, Empty, Nil)
    ELSE up

\* GetDatabases without the ReadCache test: it reads the store always
GetDatabasesNoFallback(readCache, cs, req, up) ==
    Resp(Copies(StoreResources(cs[KindDatabase], KindDatabase, Empty)), Empty, Nil)

GetDatabases(readCache, cs, req, up) ==
    IF readCache
    THEN Resp(Copies(StoreResources(cs[KindDatabase], KindDatabase, Empty)), Empty, Nil)
    ELSE up

GetDatabaseServers(readCache, cs, req, up) ==
    IF readCache
    THEN Resp(Copies(StoreResources(cs[KindDatabaseServer], KindDatabaseServer, Empty)), Empty, Nil)
    ELSE up

GetApps(readCache, cs, req, up) ==
    IF readCache
    THEN Resp(Copies(StoreResources(cs[KindApp], KindApp, Empty)), Empty, Nil)
    ELSE up

\* GetApp without the Copy: the caller is handed the stored value
GetAppNoCopy(readCache, cs, req, up) ==
    IF readCache
    THEN LET a == StoreGet(cs[KindApp], KindApp, req.name)
         IN IF a.err # Nil THEN Fail(a.err)
            ELSE Resp(<<Item(a.val, TRUE)>>, Empty, Nil)
    ELSE up

GetApp(readCache, cs, req, up) ==
    IF readCache
    THEN LET a == StoreGet(cs[KindApp], KindApp, req.name)
         IN IF a.err # Nil THEN Fail(a.err)
            ELSE Resp(<<Copy(a.val)>>, Empty, Nil)
    ELSE up

GetApplicationServers(readCache, cs, req, up) ==
    IF readCache
    THEN Resp(Copies(StoreResources(cs[KindAppServer], KindAppServer, Empty)), Empty, Nil)
    ELSE up

GetKubernetesServers(readCache, cs, req, up) ==
    IF readCache
    THEN Resp(Copies(StoreResources(cs[KindKubeServer], KindKubeServer, Empty)), Empty, Nil)
    ELSE up

GetKubernetesClusters(readCache, cs, req, up) ==
    IF readCache
    THEN Resp(Copies(StoreResources(cs[KindKubernetesCluster], KindKubernetesCluster, Empty)), Empty, Nil)
    ELSE up

GetKubernetesCluster(readCache, cs, req, up) ==
    IF readCache
    THEN LET k == StoreGet(cs[KindKubernetesCluster], KindKubernetesCluster, req.name)
         IN IF k.err # Nil THEN Fail(k.err)
            ELSE Resp(<<Copy(k.val)>>, Empty, Nil)
    ELSE up

(***************************************************************************)
(* Windows desktops (windows_desktop.go).                                  *)
(***************************************************************************)
GetWindowsDesktopServices(readCache, cs, req, up) ==
    IF readCache
    THEN Resp(Copies(StoreResources(cs[KindWindowsDesktopService],
                                    KindWindowsDesktopService, Empty)), Empty, Nil)
    ELSE up

GetWindowsDesktopService(readCache, cs, req, up) ==
    IF readCache
    THEN LET svc == StoreGet(cs[KindWindowsDesktopService],
                             KindWindowsDesktopService, req.name)
         IN IF svc.err # Nil THEN Fail(svc.err)
            ELSE Resp(<<Copy(svc.val)>>, Empty, Nil)
    ELSE up

RECURSIVE ListWindowsDesktopServicesLoopSkip(_, _, _, _)
\* the loop of ListWindowsDesktopServices stopping one service late: the
\* cursor is the pagination key of the service after the one the page
\* stopped at
ListWindowsDesktopServicesLoopSkip(seq, i, req, resp) ==
    LET pageSize == IF req.limit <= 0 \/ req.limit > DefaultChunkSize
                    THEN DefaultChunkSize ELSE req.limit
    IN IF i > Len(seq) THEN resp
       ELSE IF Len(resp.items) = pageSize
            THEN [resp EXCEPT !.nextKey =
                     IF i < Len(seq) THEN GetPaginationKey(seq[i + 1]) ELSE Empty]
       ELSE ListWindowsDesktopServicesLoopSkip(seq, i + 1, req,
                [resp EXCEPT !.items = Append(@, Copy(seq[i]))])

RECURSIVE ListWindowsDesktopServicesLoop(_, _, _, _)
\* the range loop of ListWindowsDesktopServices; the filter built from the
\* request is not consulted by it
ListWindowsDesktopServicesLoop(seq, i, req, resp) ==
    LET pageSize == IF req.limit <= 0 \/ req.limit > DefaultChunkSize
                    THEN DefaultChunkSize ELSE req.limit
    IN IF i > Len(seq) THEN resp
       ELSE IF Len(resp.items) = pageSize
            THEN [resp EXCEPT !.nextKey = GetPaginationKey(seq[i])]
       ELSE ListWindowsDesktopServicesLoop(seq, i + 1, req,
                [resp EXCEPT !.items = Append(@, Copy(seq[i]))])

\* ListWindowsDesktopServices going on after a predicate that does not parse
ListWindowsDesktopServicesNoParse(readCache, cs, req, up) ==
    IF ~readCache THEN up
    ELSE ListWindowsDesktopServicesLoop(
             StoreResources(cs[KindWindowsDesktopService],
                            KindWindowsDesktopService, req.startKey),
             1, req, Resp(<<>>, Empty, Nil))

ListWindowsDesktopServices(readCache, cs, req, up) ==
    IF ~readCache THEN up
    ELSE IF req.pred # PredNone /\ ParseFails(req) THEN Fail(ErrBadParameter)
    ELSE ListWindowsDesktopServicesLoop(
             StoreResources(cs[KindWindowsDesktopService],
                            KindWindowsDesktopService, req.startKey),
             1, req, Resp(<<>>, Empty, Nil))

RECURSIVE GetWindowsDesktopsLoop(_, _, _, _)
GetWindowsDesktopsLoop(seq, i, req, out) ==
    IF i > Len(seq) THEN out
    ELSE IF ~MatchHost(req, seq[i]) THEN GetWindowsDesktopsLoop(seq, i + 1, req, out)
    ELSE GetWindowsDesktopsLoop(seq, i + 1, req, Append(out, Copy(seq[i])))

GetWindowsDesktops(readCache, cs, req, up) ==
    IF readCache
    THEN Resp(GetWindowsDesktopsLoop(
                  StoreResources(cs[KindWindowsDesktop], KindWindowsDesktop, Empty),
                  1, req, <<>>), Empty, Nil)
    ELSE up

RECURSIVE ListWindowsDesktopsLoopNoClamp(_, _, _, _)
\* the loop of ListWindowsDesktops taking an excessive limit as it is
ListWindowsDesktopsLoopNoClamp(seq, i, req, resp) ==
    LET pageSize == IF req.limit <= 0 THEN DefaultChunkSize ELSE req.limit
    IN IF i > Len(seq) THEN resp
       ELSE IF ~MatchHost(req, seq[i])
            THEN ListWindowsDesktopsLoopNoClamp(seq, i + 1, req, resp)
       ELSE IF ~MatchLabels(req, seq[i])
            THEN ListWindowsDesktopsLoopNoClamp(seq, i + 1, req, resp)
       ELSE IF Len(resp.items) = pageSize
            THEN ListWindowsDesktopsLoopNoClamp(seq, i + 1, req,
                     [resp EXCEPT !.nextKey = GetPaginationKey(seq[i])])
       ELSE ListWindowsDesktopsLoopNoClamp(seq, i + 1, req,
                     [resp EXCEPT !.items = Append(@, Copy(seq[i]))])

RECURSIVE ListWindowsDesktopsLoop(_, _, _, _)
\* the range loop of ListWindowsDesktops: the break of the full-page case
\* leaves the switch statement, not the loop, so the loop runs to the end of
\* the sequence and every later match overwrites NextKey
ListWindowsDesktopsLoop(seq, i, req, resp) ==
    LET pageSize == IF req.limit <= 0 \/ req.limit > DefaultChunkSize
                    THEN DefaultChunkSize ELSE req.limit
    IN IF i > Len(seq) THEN resp
       ELSE IF ~MatchHost(req, seq[i])
            THEN ListWindowsDesktopsLoop(seq, i + 1, req, resp)
       ELSE IF ~MatchLabels(req, seq[i])
            THEN ListWindowsDesktopsLoop(seq, i + 1, req, resp)
       ELSE IF Len(resp.items) = pageSize
            THEN ListWindowsDesktopsLoop(seq, i + 1, req,
                     [resp EXCEPT !.nextKey = GetPaginationKey(seq[i])])
       ELSE ListWindowsDesktopsLoop(seq, i + 1, req,
                     [resp EXCEPT !.items = Append(@, Copy(seq[i]))])

ListWindowsDesktops(readCache, cs, req, up) ==
    IF ~readCache THEN up
    ELSE IF req.pred # PredNone /\ ParseFails(req) THEN Fail(ErrBadParameter)
    ELSE ListWindowsDesktopsLoop(
             StoreResources(cs[KindWindowsDesktop], KindWindowsDesktop, req.startKey),
             1, req, Resp(<<>>, Empty, Nil))

(***************************************************************************)
(* ListResources, the multi-kind dispatcher.                               *)
(***************************************************************************)
RECURSIVE buildListResourcesResponse(_, _, _, _, _)
buildListResourcesResponse(seq, i, limit, req, resp) ==
    IF i > Len(seq) THEN resp
    ELSE IF ~MatchLabels(req, seq[i])
         THEN buildListResourcesResponse(seq, i + 1, limit, req, resp)
    ELSE IF Len(resp.items) = limit
         THEN [resp EXCEPT !.nextKey = GetPaginationKey(seq[i])]
    ELSE buildListResourcesResponse(seq, i + 1, limit, req,
             [resp EXCEPT !.items = Append(@, Copy(seq[i]))])

\* the kinds listResources walks a store for
ListResourcesKinds ==
    {KindDatabaseServer, KindDatabaseService, KindAppServer, KindNode,
     KindWindowsDesktopService, KindKubeServer}

\* listResources taking the limit as it is, also when it is not positive
listResourcesNoDefault(cs, req) ==
    IF req.pred # PredNone /\ ParseFails(req) THEN Fail(ErrBadParameter)
    ELSE IF req.type \in ListResourcesKinds
         THEN buildListResourcesResponse(
                  StoreResources(cs[req.type], req.type, req.startKey),
                  1, req.limit, req, Resp(<<>>, Empty, Nil))
         ELSE Fail(ErrNotImplemented)

\* listResources answering with an empty page for a kind it does not walk
listResourcesEmptyDefault(cs, req) ==
    IF req.pred # PredNone /\ ParseFails(req) THEN Fail(ErrBadParameter)
    ELSE LET limit == IF req.limit <= 0 THEN DefaultChunkSize ELSE req.limit
         IN IF req.type \in ListResourcesKinds
            THEN buildListResourcesResponse(
                     StoreResources(cs[req.type], req.type, req.startKey),
                     1, limit, req, Resp(<<>>, Empty, Nil))
            ELSE Resp(<<>>, Empty, Nil)

listResources(cs, req) ==
    IF req.pred # PredNone /\ ParseFails(req) THEN Fail(ErrBadParameter)
    ELSE LET limit == IF req.limit <= 0 THEN DefaultChunkSize ELSE req.limit
         IN IF req.type \in ListResourcesKinds
            THEN buildListResourcesResponse(
                     StoreResources(cs[req.type], req.type, req.startKey),
                     1, limit, req, Resp(<<>>, Empty, Nil))
            ELSE Fail(ErrNotImplemented)

RECURSIVE FakePaginateLoop(_, _, _, _, _)
FakePaginateLoop(seq, i, limit, req, resp) ==
    IF i > Len(seq) THEN resp
    ELSE IF LexLess(GetPaginationKey(seq[i].val), req.startKey)
            \/ ~MatchLabels(req, seq[i].val)
         THEN FakePaginateLoop(seq, i + 1, limit, req, resp)
    ELSE IF Len(resp.items) = limit
         THEN [resp EXCEPT !.nextKey = GetPaginationKey(seq[i].val)]
    ELSE FakePaginateLoop(seq, i + 1, limit, req,
             [resp EXCEPT !.items = Append(@, seq[i])])

\* local.FakePaginate over resources already fetched
FakePaginate(items, req) ==
    FakePaginateLoop(items, 1,
                     IF req.limit <= 0 THEN DefaultChunkSize ELSE req.limit,
                     req, Resp(<<>>, Empty, Nil))

\* up is the answer of Presence.ListResources, or, for nodes, of
\* getNodesWithTTLCache
\* listResourcesFallback without the test of the resource type: every kind
\* is paginated locally
listResourcesFallbackLocal(req, up) ==
    IF up.err # Nil THEN Fail(up.err)
    ELSE IF req.pred # PredNone /\ ParseFails(req) THEN Fail(ErrBadParameter)
    ELSE FakePaginate(up.items, req)

listResourcesFallback(req, up) ==
    IF req.type # KindNode THEN up
    ELSE IF up.err # Nil THEN Fail(up.err)
    ELSE IF req.pred # PredNone /\ ParseFails(req) THEN Fail(ErrBadParameter)
    ELSE FakePaginate(up.items, req)

ListResources(readCache, cs, req, up) ==
    IF ~readCache THEN listResourcesFallback(req, up)
    ELSE listResources(cs, req)

(***************************************************************************)
(* The accessors by name.                                                  *)
(***************************************************************************)
Ops == {"GetRole", "GetRoles", "ListRoles",
        "GetDatabase", "GetDatabases", "GetDatabaseServers",
        "GetApp", "GetApps", "GetApplicationServers",
        "GetKubernetesServers", "GetKubernetesClusters", "GetKubernetesCluster",
        "GetWindowsDesktopServices", "GetWindowsDesktopService",
        "ListWindowsDesktopServices", "GetWindowsDesktops", "ListWindowsDesktops",
        "ListResources"}

\* the collection whose read guard the accessor acquires
OpKind(op) ==
    CASE op \in {"GetRole", "GetRoles", "ListRoles"} -> KindRole
      [] op \in {"GetDatabase", "GetDatabases"} -> KindDatabase
      [] op = "GetDatabaseServers" -> KindDatabaseServer
      [] op \in {"GetApp", "GetApps"} -> KindApp
      [] op = "GetApplicationServers" -> KindAppServer
      [] op = "GetKubernetesServers" -> KindKubeServer
      [] op \in {"GetKubernetesClusters", "GetKubernetesCluster"} -> KindKubernetesCluster
      [] op \in {"GetWindowsDesktopServices", "GetWindowsDesktopService",
                 "ListWindowsDesktopServices"} -> KindWindowsDesktopService
      [] op \in {"GetWindowsDesktops", "ListWindowsDesktops"} -> KindWindowsDesktop
      [] OTHER -> ""

GetOps == {"GetRole", "GetDatabase", "GetApp", "GetKubernetesCluster",
           "GetWindowsDesktopService"}
GetAllOps == {"GetRoles", "GetDatabases", "GetDatabaseServers", "GetApps",
              "GetApplicationServers", "GetKubernetesServers",
              "GetKubernetesClusters", "GetWindowsDesktopServices",
              "GetWindowsDesktops"}
ListOps == {"ListRoles", "ListWindowsDesktopServices", "ListWindowsDesktops",
            "ListResources"}

\* the accessor op applied to its inputs
Accessor(op, readCache, cs, req, up) ==
    CASE op = "GetRole" -> GetRole(readCache, cs, req, up)
      [] op = "GetRoles" -> GetRoles(readCache, cs, req, up)
      [] op = "ListRoles" -> ListRoles(readCache, cs, req, up)
      [] op = "GetDatabase" -> GetDatabase(readCache, cs, req, up)
      [] op = "GetDatabases" -> GetDatabases(readCache, cs, req, up)
      [] op = "GetDatabaseServers" -> GetDatabaseServers(readCache, cs, req, up)
      [] op = "GetApp" -> GetApp(readCache, cs, req, up)
      [] op = "GetApps" -> GetApps(readCache, cs, req, up)
      [] op = "GetApplicationServers" -> GetApplicationServers(readCache, cs, req, up)
      [] op = "GetKubernetesServers" -> GetKubernetesServers(readCache, cs, req, up)
      [] op = "GetKubernetesClusters" -> GetKubernetesClusters(readCache, cs, req, up)
      [] op = "GetKubernetesCluster" -> GetKubernetesCluster(readCache, cs, req, up)
      [] op = "GetWindowsDesktopServices" ->
             GetWindowsDesktopServices(readCache, cs, req, up)
      [] op = "GetWindowsDesktopService" ->
             GetWindowsDesktopService(readCache, cs, req, up)
      [] op = "ListWindowsDesktopServices" ->
             ListWindowsDesktopServices(readCache, cs, req, up)
      [] op = "GetWindowsDesktops" -> GetWindowsDesktops(readCache, cs, req, up)
      [] op = "ListWindowsDesktops" -> ListWindowsDesktops(readCache, cs, req, up)
      [] OTHER -> ListResources(readCache, cs, req, up)

\* the backend operation the accessor calls when it does not serve the
\* request from its store
UpstreamOp(op, req) ==
    IF op = "ListResources" /\ req.type = KindNode
    THEN "getNodesWithTTLCache"
    ELSE op

\* the arguments the accessor hands to that backend operation: its own
UpstreamReq(op, req) == req

\* GetRole releases its guard early and asks the backend when the store
\* lacks the role
ReleasesEarly(op, cs, req) ==
    /\ op = "GetRole"
    /\ StoreGet(cs[KindRole], KindRole, req.name).err = ErrNotFound

\* an accessor that keeps what the backend answered to a miss
CacheAfterReadThrough(op, cs, req, up) ==
    IF op = "GetRole" /\ up.err = Nil /\ Len(up.items) = 1
    THEN [cs EXCEPT ![KindRole] = StorePut(@, KindRole, up.items[1].val)]
    ELSE cs

\* the stores after an accessor ran: accessors call get, len and resources
\* of the store and nothing that writes
CacheAfter(op, cs, req, up) == cs

\* the kind whose confirmation decides between cache and fallback
GuardKind(op, req) == IF op = "ListResources" THEN req.type ELSE OpKind(op)

\* acquireReadGuard, and the same test that ListResources makes itself
\* under the read lock: "closed", "cache" or "fallback"
acquireReadGuard(isClosed, isOk, confirmed, kind) ==
    IF isClosed THEN "closed"
    ELSE IF isOk /\ kind \in confirmed THEN "cache"
    ELSE "fallback"

\* ListResources without the test of closed
ListResourcesGuardNoClosed(isClosed, isOk, confirmed, req) ==
    IF ~isOk \/ req.type \notin confirmed THEN "fallback"
    ELSE "cache"

\* ListResources testing ok alone
ListResourcesGuardOkOnly(isClosed, isOk, confirmed, req) ==
    IF isClosed THEN "closed"
    ELSE IF ~isOk THEN "fallback"
    ELSE "cache"

ListResourcesGuard(isClosed, isOk, confirmed, req) ==
    IF isClosed THEN "closed"
    ELSE IF ~isOk \/ req.type \notin confirmed THEN "fallback"
    ELSE "cache"

\* readGuard.Release: the first Release of a guard that holds the read lock
\* gives it back, a later one does nothing
Release(locked, n) ==
    [locked |-> FALSE, rlocks |-> IF locked THEN n - 1 ELSE n]

\* a guard that lets the store be read without the read lock
GuardHoldsNever(g) == FALSE

\* a guard keeps the read lock exactly when it lets the store be read
GuardHolds(g) == g = "cache"

\* ListResources reading the store without the read lock
ListResourcesHoldsNever(g) == FALSE

\* ListResources keeping the read lock over its fallback
ListResourcesHoldsInFallback(g) == g \in {"cache", "fallback"}

\* ListResources takes the read lock itself: it unlocks before the fallback
\* and keeps the lock, to be unlocked at return, on the cache path
ListResourcesHolds(g) == g = "cache"

\* GetRole unlocking the coordinator lock itself on a miss, the guard not
\* knowing of it
EarlyReleaseUnlock(locked, n) == [locked |-> locked, rlocks |-> n - 1]

\* GetRole without the Release on a miss
EarlyReleaseNone(locked, n) == [locked |-> locked, rlocks |-> n]

\* the rg.Release() GetRole calls itself when store.get fails
EarlyRelease(locked, n) == Release(locked, n)

\* what runs as the accessor returns: the deferred rg.Release() of a per-kind
\* accessor, the deferred RUnlock of the cache path of ListResources
DeferredRelease(op, path, locked, n) ==
    IF op = "ListResources"
    THEN IF path = "cache"
         THEN [locked |-> FALSE, rlocks |-> n - 1]
         ELSE [locked |-> locked, rlocks |-> n]
    ELSE Release(locked, n)

(***************************************************************************)
(* The backend: the authoritative set of resources, and its read API.      *)
(***************************************************************************)
\* the backend key of a resource: per-host resources are stored per host
BackendKey(r) == IF r.kind \in HostKinds THEN HostKey(r) ELSE r.name

RECURSIVE SortBackend(_)
SortBackend(b) ==
    IF b = {} THEN <<>>
    ELSE LET m == CHOOSE x \in b : \A y \in b : LexLeq(BackendKey(x), BackendKey(y))
         IN <<m>> \o SortBackend(b \ {m})

RECURSIVE BackendPage(_, _, _, _)
BackendPage(seq, i, req, resp) ==
    LET limit == IF req.limit <= 0 \/ req.limit > DefaultChunkSize
                 THEN DefaultChunkSize ELSE req.limit
    IN IF i > Len(seq) THEN resp
       ELSE IF LexLess(BackendKey(seq[i]), req.startKey)
               \/ ~MatchLabels(req, seq[i]) \/ ~MatchHost(req, seq[i])
            THEN BackendPage(seq, i + 1, req, resp)
       ELSE IF Len(resp.items) = limit
            THEN [resp EXCEPT !.nextKey = BackendKey(seq[i])]
       ELSE BackendPage(seq, i + 1, req,
                        [resp EXCEPT !.items = Append(@, Copy(seq[i]))])

\* what the backend holding the set b answers to operation uop
BackendAnswer(b, uop, req) ==
    IF uop \in GetOps
    THEN IF \E x \in b : x.name = req.name
         THEN Resp(<<Copy(CHOOSE x \in b : x.name = req.name)>>, Empty, Nil)
         ELSE Fail(ErrNotFound)
    ELSE IF uop \in GetAllOps \cup {"getNodesWithTTLCache"}
    THEN Resp(Copies(SortBackend({x \in b : MatchHost(req, x)})), Empty, Nil)
    ELSE IF ParseFails(req) THEN Fail(ErrBadParameter)
    ELSE BackendPage(SortBackend(b), 1, req, Resp(<<>>, Empty, Nil))

(***************************************************************************)
(* State.                                                                  *)
(***************************************************************************)
VARIABLES
    focus,          \* the kind whose resources exist in this cluster
    backend,        \* the backend's resources (all of kind focus)
    stores,         \* kind -> the store of its collection
    queue,          \* the events sent by the backend and not yet applied
    ok,             \* the cache has synced and is applying events
    confirmedKinds, \* the kinds whose watch is confirmed
    closed,         \* the cache is closed
    rlocks,         \* holders of the coordinator's read lock
    applied,        \* the event applied last on the current event stream
    call,           \* the accessor call in progress
    session,        \* the paging session of the caller
    sync,           \* the fetch of the background task: its phase, its answer
    stream,         \* the record of the event stream under observation
    collections,    \* kind -> what its new*Collection constructor returned
    health,         \* a database's stored health checks and the call made on them
    upload          \* a file session upload: its directory, session file and lock

vars == <<focus, backend, stores, queue, ok, confirmedKinds, closed, rlocks,
          applied, call, session, sync, stream, collections, health, upload>>

EmptyStores == [k \in Kinds |-> {}]

\* no call in progress
IdleCall ==
    [pc |-> "idle", op |-> "", req |-> NoReq, resp |-> NoUp, path |-> "",
     up |-> NoUp, upOp |-> "", upReq |-> NoReq, backendCalls |-> 0,
     storeRead |-> FALSE, mutated |-> FALSE, locked |-> FALSE, seen |-> {}]

NoSession ==
    [status |-> "none", op |-> "", req |-> NoReq, acc |-> <<>>,
     cursor |-> Empty, pages |-> 0]

\* the backend's resources of kind k
BackendOf(k) == IF k = focus THEN backend ELSE {}

\* an event of the stream
PutEvent(r) == [type |-> "put", kind |-> r.kind, res |-> r, hdr |-> HeaderOf(r)]
\* a delete event carries the header alone
DeleteEvent(r) ==
    [type |-> "delete", kind |-> r.kind, res |-> Res(r.kind, Empty, Empty, NoLabel),
     hdr |-> HeaderOf(r)]

\* the record of an applied event: the event and the entries that left the
\* store when it was applied
Applied(ev, gone) ==
    [type |-> ev.type, kind |-> ev.kind, res |-> ev.res, hdr |-> ev.hdr,
     displaced |-> gone]

\* no event applied yet
NoEvent ==
    [type |-> "none", kind |-> "", res |-> Res("", Empty, Empty, NoLabel),
     hdr |-> Header("", Empty, Empty), displaced |-> {}]

RECURSIVE FetchInto(_, _, _)
\* a full fetch put into an empty store, resource by resource
FetchInto(s, k, seq) ==
    IF seq = <<>> THEN s ELSE FetchInto(StorePut(s, k, Head(seq)), k, Tail(seq))

\* the resources that can exist in the event-driven specification; those of
\* a per-host kind differ by host and name and carry one label value
Universe(k) ==
    IF k \in HostKinds
    THEN {r \in ResourcesOver(k, Names) : r.labels = "dev"}
    ELSE ResourcesOver(k, Names)

\* the fetch of the background task: none yet ("cold"), in flight
\* ("fetching"), failed and waiting to be retried ("failed") or succeeded
\* ("done"), and what the upstream answered to it
SyncState(phase, up) == [phase |-> phase, up |-> up]
NotFetched == SyncState("cold", "none")
Fetching == SyncState("fetching", "none")

\* a resource of another type among those the upstream lists
Stranger == Res(KindDatabase, Name(1), Empty, NoLabel)

\* what the upstream can answer to the fetch of kind k: the full set, an
\* error or, through the generic listing the database service fetcher uses,
\* a list that holds a resource of another type
FetchAnswers(k) ==
    {Resp(Copies(SortBackend(BackendOf(k))), Empty, Nil), Fail(ErrUpstream)}
    \cup (IF k = KindDatabaseService
          THEN {Resp(Copies(SortBackend(BackendOf(k)) \o <<Stranger>>), Empty, Nil)}
          ELSE {})

\* "ok", "error" or "unexpected": the upstream answer in short
AnswerTag(up) ==
    IF up.err # Nil THEN "error"
    ELSE IF \E i \in 1..Len(up.items) : up.items[i].val = Stranger THEN "unexpected"
    ELSE "ok"

\* a fetcher handing on the resources of its type that precede a stranger
fetcherPartial(k, up) ==
    IF up.err # Nil THEN Fail(up.err)
    ELSE Resp(SelectSeq(up.items, LAMBDA it : it.val.kind = k), Empty, Nil)

\* collection.fetcher: the upstream's full list or its error; the database
\* service fetcher returns an error for a list holding another type
fetcher(k, up) ==
    IF up.err # Nil THEN Fail(up.err)
    ELSE IF k = KindDatabaseService
            /\ \E i \in 1..Len(up.items) : up.items[i].val.kind # KindDatabaseService
    THEN Fail(ErrBadParameter)
    ELSE up

\* the kinds that stay confirmed when the stream breaks or the cache closes,
\* were none unconfirmed
UnconfirmNone(confirmed) == confirmed

\* the kinds that stay confirmed when the stream breaks or the cache closes
Unconfirm(confirmed) == {}

\* the event stream under observation: the store of the kind in focus as
\* last fetched and the events sent since
NoStream == [observed |-> FALSE, snapshot |-> {}, log |-> <<>>]
ObservedStream == [observed |-> TRUE, snapshot |-> {}, log |-> <<>>]

\* the events the watcher buffers
QueueCap == IF stream.observed THEN MaxBacklog ELSE MaxQueue

\* an event is well-formed when it is a put or a delete of a kind that has
\* a collection
WellFormed(ev) == ev.type \in {"put", "delete"} /\ ev.kind \in Kinds

\* malformed and unexpected events
StrayEvents ==
    {[type |-> "unknown", kind |-> focus, res |-> Res(focus, Name(1), Empty, NoLabel),
      hdr |-> Header(focus, Name(1), Empty)],
     [type |-> "put", kind |-> KindUserGroup,
      res |-> Res(KindUserGroup, Name(1), Empty, NoLabel),
      hdr |-> Header(KindUserGroup, Name(1), Empty)]}

\* the event the apply loop takes were it the newest
NewestEvent(q) == q[Len(q)]

\* the event the apply loop takes: the oldest
NextEvent(q) == Head(q)

(***************************************************************************)
(* Database health (lib/srv/db/common): the health checks stored with a    *)
(* database, newest first, and the status a server derives from them.      *)
(***************************************************************************)
\* DatabaseServerStatus
DatabaseServerStatusHealthy == "healthy"
DatabaseServerStatusWarning == "warning"
DatabaseServerStatusUnknown == "unknown"
DatabaseServerStatusUnhealthy == "unhealthy"

\* a health check and its outcome
HealthCheck(success) == [success |-> success]
IsSuccess(check) == check.success

\* the lists of at most n health checks
ChecksUpTo(n) ==
    UNION {[1..m -> {HealthCheck(TRUE), HealthCheck(FALSE)}] : m \in 0..n}

RECURSIVE CountSucceeded(_)
\* the checks of a list that succeeded
CountSucceeded(checks) ==
    IF checks = <<>> THEN 0
    ELSE (IF IsSuccess(Head(checks)) THEN 1 ELSE 0) + CountSucceeded(Tail(checks))

\* ServerStatus giving a warning when only the last check succeeded
ServerStatusWarning(checks) ==
    LET totalChecks == Len(checks)
    IN IF totalChecks = 0 THEN DatabaseServerStatusUnknown
       ELSE LET lastSucceded == IsSuccess(checks[1])
            IN IF totalChecks = 1
               THEN IF lastSucceded THEN DatabaseServerStatusHealthy
                    ELSE DatabaseServerStatusUnhealthy
               ELSE LET totalSucceeded == CountSucceeded(checks)
                    IN IF lastSucceded /\ totalSucceeded = 1
                       THEN DatabaseServerStatusWarning
                       ELSE IF totalSucceeded < 2
                       THEN DatabaseServerStatusUnhealthy
                       ELSE DatabaseServerStatusHealthy

\* ServerStatus of a server whose database stores checks
ServerStatus(checks) ==
    LET totalChecks == Len(checks)
    IN IF totalChecks = 0 THEN DatabaseServerStatusUnknown
       ELSE LET lastSucceded == IsSuccess(checks[1])
            IN IF totalChecks = 1
               THEN IF lastSucceded THEN DatabaseServerStatusHealthy
                    ELSE DatabaseServerStatusUnhealthy
               ELSE LET totalSucceeded ==
                            (IF lastSucceded THEN 1 ELSE 0)
                            + CountSucceeded(Tail(checks))
                    IN IF lastSucceded /\ totalSucceeded = 0
                       THEN DatabaseServerStatusWarning
                       ELSE IF totalSucceeded < 2
                       THEN DatabaseServerStatusUnhealthy
                       ELSE DatabaseServerStatusHealthy

\* a slice: its elements and its capacity
MakeSlice(len, capacity) == [elems |-> [i \in 1..len |-> Nil], capacity |-> capacity]

\* s[i] of a slice, i counted from 0, is in range
InRange(s, i) == 0 <= i /\ i < Len(s.elems)

\* what PrependHealthCheck leaves: the stored checks, and whether it ended
\* in a runtime panic
Prepended(checks, panicked) == [checks |-> checks, panicked |-> panicked]

\* PrependHealthCheck on a database that stores checks
PrependHealthCheck(checks, check) ==
    LET capacity == IF Len(checks) + 1 < 3 THEN Len(checks) + 1 ELSE 3
        made == MakeSlice(0, capacity)
    IN IF ~InRange(made, 0)
       THEN Prepended(checks, TRUE)
       ELSE LET first == [made EXCEPT !.elems[1] = check]
                all == IF Len(checks) > 0
                       THEN first.elems \o SubSeq(checks, 1, capacity - 1)
                       ELSE first.elems
            IN Prepended(all, FALSE)

\* no call made on the database's health yet
HealthOf(checks) ==
    [checks |-> checks, op |-> "", status |-> "", check |-> HealthCheck(FALSE),
     before |-> <<>>, panicked |-> FALSE]
NoHealth == HealthOf(<<>>)

(***************************************************************************)
(* File session uploads (lib/events/filesessions): the directory of an     *)
(* upload with its reservation and part files, the session file the parts  *)
(* are combined into, and the file lock of the session file.               *)
(***************************************************************************)
\* file extensions
partExt == ".part"
reservationExt == ".reservation"

\* part numbers and the bodies of parts
PartNumbers == 1..MaxPart
Bodies == {"a", "b"}
\* the content of a reserved file not written yet, and of one whose write
\* failed half way
Reserved == "reserved"
Partial == "partial"

partFileName(partNumber) == [base |-> partNumber, ext |-> partExt]
reservationFileName(partNumber) == [base |-> partNumber, ext |-> reservationExt]

\* partFromFileName: the part number of a part file, -1 with an error for
\* any other file
partFromFileName(fileName) ==
    IF fileName.ext # partExt
    THEN [number |-> -1, err |-> ErrBadParameter]
    ELSE [number |-> fileName.base, err |-> Nil]

\* a directory is a set of files, one per name
File(name, data) == [name |-> name, data |-> data]
Exists(dir, name) == \E f \in dir : f.name = name
ReadFile(dir, name) == (CHOOSE f \in dir : f.name = name).data
RemoveFile(dir, name) == {f \in dir : f.name # name}
WriteFile(dir, name, data) == RemoveFile(dir, name) \cup {File(name, data)}
\* os.Rename: the file takes the new name, replacing a file of that name
RenameFile(dir, old, new) ==
    WriteFile(RemoveFile(dir, old), new, ReadFile(dir, old))

RECURSIVE InsertPart(_, _)
\* n put into an ascending sequence of part numbers
InsertPart(seq, n) ==
    IF seq = <<>> THEN <<n>>
    ELSE IF n < Head(seq) THEN <<n>> \o seq
    ELSE <<Head(seq)>> \o InsertPart(Tail(seq), n)

RECURSIVE SortParts(_)
\* sort.Slice by part number
SortParts(parts) ==
    IF parts = <<>> THEN <<>>
    ELSE InsertPart(SortParts(Tail(parts)), Head(parts))

RECURSIVE WalkParts(_)
\* the walk of ListParts over the files of the upload directory: the numbers
\* of the part files, in the order the walk meets them
WalkParts(dir) ==
    IF dir = {} THEN <<>>
    ELSE LET f == CHOOSE x \in dir : TRUE
             part == partFromFileName(f.name)
         IN IF part.err # Nil THEN WalkParts(dir \ {f})
            ELSE <<part.number>> \o WalkParts(dir \ {f})

\* ListParts listing every file of the directory, reservations included
ListPartsAnyFile(dir) ==
    SortParts(WalkParts({File(partFileName(f.name.base), f.data) : f \in dir}))

\* Handler.ListParts
ListParts(dir) == SortParts(WalkParts(dir))

\* Handler.ReserveUploadPart: created says that CreateReservation worked,
\* removed that the os.Remove that follows its failure did
ReserveUploadPart(dir, partNumber, created, removed) ==
    LET reservationPath == reservationFileName(partNumber)
    IN IF ~created
       THEN [dir |-> IF removed THEN RemoveFile(dir, reservationPath)
                     ELSE WriteFile(dir, reservationPath, Partial),
             err |-> ErrUpstream]
       ELSE [dir |-> WriteFile(dir, reservationPath, Reserved), err |-> Nil]

\* Handler.UploadPart keeping a reservation whose write failed as the part
UploadPartKeepsFailed(dir, partNumber, body, written, removed, renamed) ==
    LET reservationPath == reservationFileName(partNumber)
        partPath == partFileName(partNumber)
    IN IF ~written
       THEN [dir |-> RenameFile(WriteFile(dir, reservationPath, Partial),
                                reservationPath, partPath),
             err |-> ErrUpstream]
       ELSE IF ~renamed
       THEN [dir |-> WriteFile(dir, reservationPath, body), err |-> ErrUpstream]
       ELSE [dir |-> RenameFile(WriteFile(dir, reservationPath, body),
                                reservationPath, partPath),
             err |-> Nil]

\* Handler.UploadPart: written says that WriteReservation worked, removed
\* that the os.Remove that follows its failure did, renamed that os.Rename
\* did
UploadPart(dir, partNumber, body, written, removed, renamed) ==
    LET reservationPath == reservationFileName(partNumber)
        partPath == partFileName(partNumber)
    IN IF ~written
       THEN [dir |-> IF removed THEN RemoveFile(dir, reservationPath)
                     ELSE WriteFile(dir, reservationPath, Partial),
             err |-> ErrUpstream]
       ELSE IF ~renamed
       THEN [dir |-> WriteFile(dir, reservationPath, body), err |-> ErrUpstream]
       ELSE [dir |-> RenameFile(WriteFile(dir, reservationPath, body),
                                reservationPath, partPath),
             err |-> Nil]

RECURSIVE combineParts(_, _, _)
\* combineParts: the parts are copied to dst one after the other; a part
\* that cannot be opened ends the copy with an error
combineParts(dst, parts, dir) ==
    IF parts = <<>> THEN [dst |-> dst, err |-> Nil]
    ELSE IF ~Exists(dir, Head(parts)) THEN [dst |-> dst, err |-> ErrNotFound]
    ELSE combineParts(Append(dst, ReadFile(dir, Head(parts))), Tail(parts), dir)

\* the paths of the parts CompleteUpload combines: the parts sorted by
\* number, each turned into its part path
PartNames(parts) ==
    LET sorted == SortParts(parts)
    IN [i \in 1..Len(sorted) |-> partFileName(sorted[i])]

\* the outcomes of utils.FSTryWriteLock
ErrUnsuccessfulLockTry == "could not acquire lock on the file at this time"
ErrLock == "lock error"

\* utils.FSTryWriteLock by the handler: the lock is taken if it is free, the
\* try is unsuccessful if another process holds it, or the call fails
FSTryWriteLock(lock, fails) ==
    IF fails THEN [lock |-> lock, err |-> ErrLock]
    ELSE IF lock = "free" THEN [lock |-> "handler", err |-> Nil]
    ELSE [lock |-> lock, err |-> ErrUnsuccessfulLockTry]

\* the handler call made last on the upload and what it returned
LastCall(op, number, err, parts) ==
    [op |-> op, number |-> number, err |-> err, parts |-> parts]

\* the CompleteUpload call: where it stands, the parts it was given, the
\* loop counter and the error of the last lock try, what it returned, the
\* session file as it was at the call, whether another process has held the
\* lock ever since, and whether the handler has taken it
Completion(pc, parts, i, err, result, before, held, locked) ==
    [pc |-> pc, parts |-> parts, i |-> i, err |-> err, result |-> result,
     before |-> before, held |-> held, locked |-> locked]
NoCompletion == Completion("idle", <<>>, 0, Nil, Nil, <<>>, FALSE, FALSE)

\* an upload just created: an empty directory, the session file with the
\* content it has, its lock free or held by another process
UploadOf(sessionFile, lock) ==
    [dir |-> {}, sessionFile |-> sessionFile, lock |-> lock, uploaded |-> {},
     last |-> LastCall("", 0, Nil, <<>>), cu |-> NoCompletion]
NoUpload == UploadOf(<<>>, "free")

Init ==
    /\ focus \in Kinds
    /\ backend = {}
    /\ stores = EmptyStores
    /\ queue = <<>>
    /\ ok = FALSE
    /\ confirmedKinds = {}
    /\ closed = FALSE
    /\ rlocks = 0
    /\ applied = NoEvent
    /\ call = IdleCall
    /\ session = NoSession
    /\ sync = NotFetched
    /\ stream = NoStream
    /\ collections = AllBuilt
    /\ health = NoHealth
    /\ upload = NoUpload

(***************************************************************************)
(* The backend changes; the cache's background task follows.  A finished   *)
(* call returns at once: nothing is interleaved between its last step and  *)
(* its return.                                                             *)
(***************************************************************************)
Returning == call.pc = "done"

\* the event is sent only while the cache watches
Emit(ev) ==
    IF ok
    THEN /\ Len(queue) < QueueCap
         /\ stream.observed => Len(stream.log) < MaxLog
         /\ queue' = Append(queue, ev)
         /\ stream' = IF stream.observed
                      THEN [stream EXCEPT !.log = Append(@, ev)]
                      ELSE stream
    ELSE queue' = queue /\ stream' = stream

BackendPut(r) ==
    /\ ~closed /\ ~Returning
    /\ r \notin backend
    /\ backend' = {x \in backend : BackendKey(x) # BackendKey(r)} \cup {r}
    /\ Cardinality(backend') <= MaxRes
    /\ Emit(PutEvent(r))
    /\ UNCHANGED <<focus, stores, ok, confirmedKinds, closed, rlocks, applied, call,
                   session, sync, collections, health, upload>>

BackendDelete(r) ==
    /\ ~closed /\ ~Returning
    /\ r \in backend
    /\ backend' = backend \ {r}
    /\ Emit(DeleteEvent(r))
    /\ UNCHANGED <<focus, stores, ok, confirmedKinds, closed, rlocks, applied, call,
                   session, sync, collections, health, upload>>

\* the store of kind k after the event
ApplyTo(s, k, ev) ==
    IF ev.type = "put"
    THEN StorePut(s, k, ev.res)
    ELSE StoreDelete(s, k, HeaderTransform(k, ev.hdr))

\* an apply loop that empties the stores when it meets an event it cannot
\* apply
processEventOrReset(cs, ev) ==
    IF WellFormed(ev)
    THEN [cs EXCEPT ![ev.kind] = ApplyTo(@, ev.kind, ev)]
    ELSE EmptyStores

\* the stores after one event: an event that is malformed or of a kind
\* without a collection is skipped
processEvent(cs, ev) ==
    IF WellFormed(ev)
    THEN [cs EXCEPT ![ev.kind] = ApplyTo(@, ev.kind, ev)]
    ELSE cs

\* the entries an event removed from the stores
Displaced(cs, after, ev) ==
    IF ev.kind \in Kinds THEN cs[ev.kind] \ after[ev.kind] ELSE {}

\* the event-apply loop takes the write lock for one event
ApplyEvent ==
    /\ ok /\ ~closed /\ ~Returning
    /\ queue # <<>>
    /\ rlocks = 0
    /\ LET ev == NextEvent(queue)
       IN /\ stores' = processEvent(stores, ev)
          /\ applied' = Applied(ev, Displaced(stores, stores', ev))
    /\ queue' = Tail(queue)
    /\ UNCHANGED <<focus, backend, ok, confirmedKinds, closed, rlocks, call, session,
                   sync, stream, collections, health, upload>>

\* a full fetch of every collection succeeds and the watch is confirmed, for
\* every kind or for every kind but the one in focus
Resync(confirmed) ==
    /\ ~ok /\ ~closed /\ ~Returning
    /\ rlocks = 0
    /\ sync.phase = "fetching"
    /\ \E up \in FetchAnswers(focus) :
         /\ fetcher(focus, up).err = Nil
         /\ stores' = [k \in Kinds |->
                         IF k = focus
                         THEN FetchInto({}, k, Vals(fetcher(k, up).items))
                         ELSE FetchInto({}, k, SortBackend(BackendOf(k)))]
         /\ sync' = SyncState("done", AnswerTag(up))
    /\ ok' = TRUE
    /\ confirmedKinds' = confirmed
    /\ queue' = <<>>
    /\ applied' = NoEvent
    /\ stream' = IF stream.observed
                 THEN [stream EXCEPT !.snapshot = stores'[focus], !.log = <<>>]
                 ELSE stream
    /\ UNCHANGED <<focus, backend, closed, rlocks, call, session, collections, health, upload>>

\* the background task starts a fetch: the first one, or the retry of a
\* failed one
StartFetch ==
    /\ ~ok /\ ~closed /\ ~Returning
    /\ sync.phase \in {"cold", "failed"}
    /\ sync' = Fetching
    /\ UNCHANGED <<focus, backend, stores, queue, ok, confirmedKinds, closed, rlocks,
                   applied, call, session, stream, collections, health, upload>>

\* the fetcher of the kind in focus returns an error: the resync is given
\* up, to be retried
FetchError ==
    /\ ~ok /\ ~closed /\ ~Returning
    /\ sync.phase = "fetching"
    /\ \E up \in FetchAnswers(focus) :
         /\ fetcher(focus, up).err # Nil
         /\ sync' = SyncState("failed", AnswerTag(up))
    /\ UNCHANGED <<focus, backend, stores, queue, ok, confirmedKinds, closed, rlocks,
                   applied, call, session, stream, collections, health, upload>>

\* the event stream breaks: readers fall back until the next resync
StreamLost ==
    /\ ok /\ ~closed /\ ~Returning
    /\ rlocks = 0
    /\ ok' = FALSE
    /\ confirmedKinds' = Unconfirm(confirmedKinds)
    /\ queue' = <<>>
    /\ applied' = NoEvent
    /\ sync' = Fetching
    /\ stream' = IF stream.observed
                 THEN [stream EXCEPT !.log = SubSeq(@, 1, Len(@) - Len(queue))]
                 ELSE stream
    /\ UNCHANGED <<focus, backend, stores, closed, rlocks, call, session, collections, health, upload>>

\* the coordinator shuts down: under the write lock it sets closed and
\* withdraws the confirmation of every kind for good
Close ==
    /\ ~closed /\ ~Returning
    /\ rlocks = 0
    /\ closed' = TRUE
    /\ confirmedKinds' = Unconfirm(confirmedKinds)
    /\ UNCHANGED <<focus, ok, backend, stores, queue, rlocks, applied, call,
                   session, sync, stream, collections, health, upload>>

(***************************************************************************)
(* An accessor call, step by step: the guard, the read under the guard,    *)
(* the backend call made without the lock, and the return.                 *)
(***************************************************************************)
\* the guard of the call: closed, cache (read lock held) or fallback
GuardOf(op, req) ==
    IF op = "ListResources"
    THEN ListResourcesGuard(closed, ok, confirmedKinds, req)
    ELSE acquireReadGuard(closed, ok, confirmedKinds, OpKind(op))

BeginCall(op, req) ==
    /\ call.pc = "idle"
    /\ LET g == GuardOf(op, req)
           holds == IF op = "ListResources" THEN ListResourcesHolds(g)
                    ELSE GuardHolds(g)
       IN /\ call' = [IdleCall EXCEPT
                        !.op = op, !.req = req, !.path = g, !.locked = holds,
                        !.seen = IF g = "cache" THEN stores[GuardKind(op, req)]
                                 ELSE {},
                        !.pc = IF g = "closed" THEN "done" ELSE g,
                        !.resp = IF g = "closed" THEN Fail(ErrClosed) ELSE NoUp]
          /\ rlocks' = IF holds THEN rlocks + 1 ELSE rlocks
    /\ UNCHANGED <<focus, backend, stores, queue, ok, confirmedKinds, closed, applied,
                   sync, stream, collections, health, upload>>

\* the requests of the event-driven specification
GetReqs == {Req("", n, 0, Empty, NoLabel, PredNone, Empty) : n \in Names}
GetAllReqs(op) ==
    IF op = "GetWindowsDesktops"
    THEN {Req("", Empty, 0, Empty, NoLabel, PredNone, h) : h \in {Empty, Name(1)}}
    ELSE {NoReq}
ListReqs(op) ==
    {Req(t, Empty, lim, Empty, l, p, Empty) :
        t \in IF op = "ListResources" THEN {focus, KindUserGroup} ELSE {""},
        lim \in {1}, l \in {NoLabel}, p \in {PredNone, PredMalformed}}

ReqsOf(op) ==
    IF op \in GetOps THEN GetReqs
    ELSE IF op \in GetAllOps THEN GetAllReqs(op)
    ELSE ListReqs(op)

\* a caller calls an accessor of the kind in focus, or ListResources
Begin(op, req) ==
    /\ op = "ListResources" \/ OpKind(op) = focus
    /\ session.status = "none"
    /\ BeginCall(op, req)
    /\ UNCHANGED session

\* the read under the guard; the deferred Release follows it, except that
\* GetRole releases early on a miss and goes on to ask the backend
Serve ==
    /\ call.pc = "cache"
    /\ IF ReleasesEarly(call.op, stores, call.req)
       THEN LET r == EarlyRelease(call.locked, rlocks)
            IN /\ call' = [call EXCEPT !.pc = "miss", !.storeRead = TRUE,
                                       !.locked = r.locked]
               /\ rlocks' = r.rlocks
       ELSE LET r == DeferredRelease(call.op, call.path, call.locked, rlocks)
            IN /\ call' = [call EXCEPT
                             !.pc = "done", !.storeRead = TRUE, !.locked = r.locked,
                             !.resp = Accessor(call.op, TRUE, stores, call.req, NoUp)]
               /\ rlocks' = r.rlocks
    /\ stores' = CacheAfter(call.op, stores, call.req, NoUp)
    /\ UNCHANGED <<focus, backend, queue, ok, confirmedKinds, closed, applied,
                   session, sync, stream, collections, health, upload>>

\* the backend call: it answers from its current state, or fails
Upstream ==
    /\ call.pc \in {"fallback", "miss"}
    /\ LET uop == UpstreamOp(call.op, call.req)
           kind == GuardKind(call.op, call.req)
           ureq == UpstreamReq(call.op, call.req)
           r == DeferredRelease(call.op, call.path, call.locked, rlocks)
       IN \E up \in {BackendAnswer(BackendOf(kind), uop, ureq), Fail(ErrUpstream)} :
            /\ rlocks' = r.rlocks
            /\ stores' = CacheAfter(call.op, stores, call.req, up)
            /\ call' = [call EXCEPT
                       !.pc = "done", !.up = up, !.upOp = uop, !.upReq = ureq,
                       !.locked = r.locked,
                       !.backendCalls = @ + 1,
                       !.resp = IF call.pc = "miss"
                                THEN GetRoleMiss(ErrNotFound, up)
                                ELSE Accessor(call.op, FALSE, stores, call.req, up)]
    /\ UNCHANGED <<focus, backend, queue, ok, confirmedKinds, closed,
                   applied, session, sync, stream, collections, health, upload>>

\* the caller changes a value it was handed; a value shared with the store
\* changes there too
MutateReturned(i, l) ==
    /\ call.pc = "done"
    /\ ~call.mutated
    /\ i \in 1..Len(call.resp.items)
    /\ LET it == call.resp.items[i]
           new == [it.val EXCEPT !.labels = l]
           k == it.val.kind
       IN /\ it.val.labels # l
          /\ call' = [call EXCEPT !.resp.items[i].val = new, !.mutated = TRUE]
          /\ stores' = IF it.shared /\ k \in Kinds
                       THEN [stores EXCEPT ![k] = StorePut(@, k, new)]
                       ELSE stores
    /\ UNCHANGED <<focus, backend, queue, ok, confirmedKinds, closed, rlocks, applied,
                   session, sync, stream, collections, health, upload>>

\* the call returns; a paging session takes the page and the cursor
Return ==
    /\ call.pc = "done"
    /\ call' = IdleCall
    /\ session' =
         IF session.status # "open" THEN session
         ELSE [session EXCEPT
                 !.acc = @ \o Vals(call.resp.items),
                 !.cursor = call.resp.nextKey,
                 !.pages = @ + 1,
                 !.status = IF call.resp.err # Nil \/ call.path # "cache" THEN "failed"
                            ELSE IF call.resp.nextKey = Empty THEN "finished"
                            ELSE "open"]
    /\ UNCHANGED <<focus, backend, stores, queue, ok, confirmedKinds, closed, rlocks,
                   applied, sync, stream, collections, health, upload>>

\* the backend is written to
BackendWrite ==
    \/ \E r \in Universe(focus) : BackendPut(r)
    \/ \E r \in backend : BackendDelete(r)

\* the background task fetches everything and the watch is confirmed
Sync == \E c \in {Kinds, Kinds \ {focus}} : Resync(c)

\* a caller calls an accessor
Call == \E op \in Ops : \E req \in ReqsOf(op) : Begin(op, req)

\* a caller changes a value it was handed
Mutate == \E i \in 1..Len(call.resp.items), l \in LabelValues : MutateReturned(i, l)

Next ==
    \/ BackendWrite
    \/ ApplyEvent
    \/ StartFetch
    \/ Sync
    \/ FetchError
    \/ StreamLost
    \/ Close
    \/ Call
    \/ Serve
    \/ Upstream
    \/ Mutate
    \/ Return

Spec == Init /\ [][Next]_vars

(***************************************************************************)
(* Paging: a caller lists a kind page by page over a store that does not   *)
(* change, each call starting at the NextKey of the page before.           *)
(***************************************************************************)
\* the list accessors that page through the store of kind k
PagingOps(k) ==
    (IF k = KindRole THEN {"ListRoles"} ELSE {})
    \cup (IF k = KindWindowsDesktopService THEN {"ListWindowsDesktopServices"} ELSE {})
    \cup (IF k = KindWindowsDesktop THEN {"ListWindowsDesktops"} ELSE {})
    \cup (IF k \in ListResourcesKinds THEN {"ListResources"} ELSE {})

\* the first request of a paging session: a limit, with or without a filter
PageReqs(op) ==
    {Req(IF op = "ListResources" THEN focus ELSE "", Empty, lim, Empty, l, PredNone, h) :
        lim \in 0..MaxLimit, l \in {NoLabel, "dev"},
        h \in IF op = "ListWindowsDesktops" THEN {Empty, Name(1)} ELSE {Empty}}

\* the first call of a session
PageStart(op, req) ==
    /\ session.status = "none"
    /\ op \in PagingOps(focus)
    /\ BeginCall(op, req)
    /\ session' = [NoSession EXCEPT !.status = "open", !.op = op, !.req = req]

\* the next call of a session: the same request, StartKey set to the cursor
PageNext ==
    /\ session.status = "open"
    /\ session.pages > 0
    /\ BeginCall(session.op, [session.req EXCEPT !.startKey = session.cursor])
    /\ UNCHANGED session

\* the resources a store of kind k can hold in the paging specifications
PageUniverse(k) ==
    IF k \in HostKinds THEN ResourcesOver(k, Names) ELSE ResourcesOver(k, PageNames)

\* a synced, confirmed cache whose store of kind focus holds any set of
\* resources with distinct keys, the backend holding the same
InitPaging(kinds) ==
    /\ focus \in kinds
    /\ backend \in {b \in SUBSET PageUniverse(focus) : UniqueKeys(b, focus)}
    /\ stores = [k \in Kinds |-> IF k = focus THEN backend ELSE {}]
    /\ queue = <<>>
    /\ ok = TRUE
    /\ confirmedKinds = Kinds
    /\ closed = FALSE
    /\ rlocks = 0
    /\ applied = NoEvent
    /\ call = IdleCall
    /\ session = NoSession
    /\ sync = SyncState("done", "ok")
    /\ stream = NoStream
    /\ collections = AllBuilt
    /\ health = NoHealth
    /\ upload = NoUpload

\* a caller starts paging through the kind in focus
StartPaging == \E op \in PagingOps(focus) : \E req \in PageReqs(op) : PageStart(op, req)

NextPaging ==
    \/ StartPaging
    \/ PageNext
    \/ Serve
    \/ Return

\* paging through the name-keyed kinds
SpecPaging ==
    InitPaging({KindRole, KindWindowsDesktopService}) /\ [][NextPaging]_vars

\* paging through Windows desktops, keyed by host ID and name
SpecDesktopPaging == InitPaging({KindWindowsDesktop}) /\ [][NextPaging]_vars

\* the next call of a ListResources session, for a caller that gives up
\* after MaxPages pages
ListResourcesNext ==
    /\ session.op = "ListResources"
    /\ session.pages < MaxPages
    /\ PageNext

\* a caller starts paging through the kind in focus with ListResources
StartListResources ==
    \E req \in PageReqs("ListResources") : PageStart("ListResources", req)

NextDispatcherPaging ==
    \/ StartListResources
    \/ ListResourcesNext
    \/ Serve
    \/ Return

\* paging with ListResources through every kind the dispatcher walks
SpecDispatcherPaging ==
    InitPaging(ListResourcesKinds) /\ [][NextDispatcherPaging]_vars

(***************************************************************************)
(* Listing: every list accessor of a kind, ListResources included, called  *)
(* with every limit, filter and predicate on a cache that is or is not ok  *)
(* and has or has not confirmed the kind.                                  *)
(***************************************************************************)
\* the kinds listed
ListedKinds ==
    {KindRole, KindWindowsDesktopService, KindWindowsDesktop, KindDatabaseServer}

\* the list accessors that reach the store of kind k
ListingOps(k) ==
    (IF k = KindRole THEN {"ListRoles"} ELSE {})
    \cup (IF k = KindWindowsDesktopService THEN {"ListWindowsDesktopServices"} ELSE {})
    \cup (IF k = KindWindowsDesktop THEN {"ListWindowsDesktops"} ELSE {})
    \cup {"ListResources"}

\* the first request of a listing session
ListingReqs(op) ==
    {Req(t, Empty, lim, Empty, l, p, h) :
        t \in IF op = "ListResources" THEN {focus, KindNode} ELSE {""},
        lim \in 0..MaxLimit, l \in {NoLabel, "dev"},
        p \in IF op = "ListRoles" THEN {PredNone} ELSE {PredNone, PredMalformed},
        h \in IF op = "ListWindowsDesktops" THEN {Empty, Name(1)} ELSE {Empty}}

\* the readiness of the coordinator: not ok with nothing confirmed, or ok
\* with every kind, every kind but the one in focus, or that kind alone
\* confirmed
Readiness ==
    {<<FALSE, {}>>, <<TRUE, Kinds>>, <<TRUE, Kinds \ {focus}>>, <<TRUE, {focus}>>}

InitLists ==
    /\ focus \in ListedKinds
    /\ backend \in {b \in SUBSET PageUniverse(focus) : UniqueKeys(b, focus)}
    /\ stores = [k \in Kinds |-> IF k = focus THEN backend ELSE {}]
    /\ queue = <<>>
    /\ \E r \in Readiness : ok = r[1] /\ confirmedKinds = r[2]
    /\ closed = FALSE
    /\ rlocks = 0
    /\ applied = NoEvent
    /\ call = IdleCall
    /\ session = NoSession
    /\ sync = IF ok THEN SyncState("done", "ok") ELSE Fetching
    /\ stream = NoStream
    /\ collections = AllBuilt
    /\ health = NoHealth
    /\ upload = NoUpload

\* the first call of a listing session
ListStart(op, req) ==
    /\ session.status = "none"
    /\ BeginCall(op, req)
    /\ session' = [NoSession EXCEPT !.status = "open", !.op = op, !.req = req]

StartListing ==
    \E op \in ListingOps(focus) : \E req \in ListingReqs(op) : ListStart(op, req)

NextLists ==
    \/ StartListing
    \/ PageNext
    \/ Serve
    \/ Upstream
    \/ Return

SpecLists == InitLists /\ [][NextLists]_vars

(***************************************************************************)
(* The event stream under observation: the store as last fetched and the   *)
(* events sent since are recorded, up to MaxBacklog events wait at once,   *)
(* and the stream also carries events the cache cannot apply.              *)
(***************************************************************************)
\* the kinds whose stream is observed
StreamKinds == {KindRole, KindDatabaseService, KindDatabaseServer}

InitStream ==
    /\ focus \in StreamKinds
    /\ backend = {}
    /\ stores = EmptyStores
    /\ queue = <<>>
    /\ ok = FALSE
    /\ confirmedKinds = {}
    /\ closed = FALSE
    /\ rlocks = 0
    /\ applied = NoEvent
    /\ call = IdleCall
    /\ session = NoSession
    /\ sync = NotFetched
    /\ stream = ObservedStream
    /\ collections = AllBuilt
    /\ health = NoHealth
    /\ upload = NoUpload

\* the stream delivers an event that is malformed or of an unexpected kind
StrayEvent ==
    /\ ok /\ ~closed /\ ~Returning
    /\ \E ev \in StrayEvents : Emit(ev)
    /\ UNCHANGED <<focus, backend, stores, ok, confirmedKinds, closed, rlocks, applied,
                   call, session, sync, collections, health, upload>>

NextStream ==
    \/ BackendWrite
    \/ StrayEvent
    \/ ApplyEvent
    \/ StartFetch
    \/ Sync
    \/ FetchError
    \/ StreamLost
    \/ Close

SpecStream == InitStream /\ [][NextStream]_vars

(***************************************************************************)
(* Start-up: the collections are constructed one after the other, each     *)
(* over its upstream service or over nil, with either watch kind; the      *)
(* first constructor that fails ends the start-up.                         *)
(***************************************************************************)
\* the order in which start-up constructs the collections
BuildOrder ==
    <<KindRole, KindDatabase, KindDatabaseServer, KindDatabaseService, KindApp,
      KindAppServer, KindKubeServer, KindKubernetesCluster,
      KindWindowsDesktopService, KindWindowsDesktop>>

InitConstruct ==
    /\ focus = KindRole
    /\ backend = {}
    /\ stores = EmptyStores
    /\ queue = <<>>
    /\ ok = FALSE
    /\ confirmedKinds = {}
    /\ closed = FALSE
    /\ rlocks = 0
    /\ applied = NoEvent
    /\ call = IdleCall
    /\ session = NoSession
    /\ sync = NotFetched
    /\ stream = NoStream
    /\ collections = [k \in Kinds |-> Unbuilt]
    /\ health = NoHealth
    /\ upload = NoUpload

\* the i-th constructor is called, those before it having succeeded
Construct(i, dep, w) ==
    /\ ~collections[BuildOrder[i]].called
    /\ \A j \in 1..(i - 1) :
          collections[BuildOrder[j]].called /\ collections[BuildOrder[j]].res.err = Nil
    /\ collections' =
          [collections EXCEPT
             ![BuildOrder[i]] =
                 Constructed(dep, w, newCollection(BuildOrder[i], dep, w))]
    /\ UNCHANGED <<focus, backend, stores, queue, ok, confirmedKinds, closed, rlocks,
                   applied, call, session, sync, stream, health, upload>>

NextConstruct ==
    \E i \in 1..Len(BuildOrder) :
        \E dep \in {Nil, Dependency(BuildOrder[i])}, secrets \in BOOLEAN :
            Construct(i, dep, WatchKind(BuildOrder[i], secrets))

SpecConstruct == InitConstruct /\ [][NextConstruct]_vars

(***************************************************************************)
(* Recovery: the background task alone, with a backend that changes, a     *)
(* stream that breaks and fetches that fail; a started fetch ends, a       *)
(* failed one is retried, and fetches succeed again and again.             *)
(***************************************************************************)
\* a fetch succeeds and every watch is confirmed
FetchOk == Resync(Kinds)

NextRecover ==
    \/ BackendWrite
    \/ ApplyEvent
    \/ StartFetch
    \/ FetchOk
    \/ FetchError
    \/ StreamLost

SpecRecover ==
    /\ Init
    /\ [][NextRecover]_vars
    /\ WF_vars(StartFetch)
    /\ SF_vars(FetchOk)

(***************************************************************************)
(* Database health: a server reports its status, an agent records a new    *)
(* health check.                                                           *)
(***************************************************************************)
\* the cache at rest, for the specifications of the other packages
CacheAtRest ==
    /\ focus = KindRole
    /\ backend = {}
    /\ stores = EmptyStores
    /\ queue = <<>>
    /\ ok = FALSE
    /\ confirmedKinds = {}
    /\ closed = FALSE
    /\ rlocks = 0
    /\ applied = NoEvent
    /\ call = IdleCall
    /\ session = NoSession
    /\ sync = NotFetched
    /\ stream = NoStream
    /\ collections = AllBuilt

\* a database with any list of stored checks
InitHealth ==
    /\ CacheAtRest
    /\ health \in {HealthOf(checks) : checks \in ChecksUpTo(MaxChecks)}
    /\ upload = NoUpload

\* ServerStatus is called for a server of the database
GetServerStatus ==
    /\ health' = [health EXCEPT !.op = "ServerStatus",
                                !.status = ServerStatus(health.checks),
                                !.before = health.checks,
                                !.panicked = FALSE]
    /\ UNCHANGED <<focus, backend, stores, queue, ok, confirmedKinds, closed, rlocks,
                   applied, call, session, sync, stream, collections, upload>>

\* PrependHealthCheck is called with a new check
RecordHealthCheck(check) ==
    /\ LET r == PrependHealthCheck(health.checks, check)
       IN health' = [health EXCEPT !.op = "PrependHealthCheck",
                                   !.check = check,
                                   !.status = "",
                                   !.before = health.checks,
                                   !.checks = r.checks,
                                   !.panicked = r.panicked]
    /\ UNCHANGED <<focus, backend, stores, queue, ok, confirmedKinds, closed, rlocks,
                   applied, call, session, sync, stream, collections, upload>>

NextHealth ==
    \/ GetServerStatus
    \/ \E success \in BOOLEAN : RecordHealthCheck(HealthCheck(success))

SpecHealth == InitHealth /\ [][NextHealth]_vars

(***************************************************************************)
(* File session uploads: parts are reserved, uploaded and listed, then the *)
(* upload is completed while another process may hold the file lock.       *)
(***************************************************************************)
\* an upload just created; the session file is absent, or was written
\* before by another process
InitUpload ==
    /\ CacheAtRest
    /\ health = NoHealth
    /\ upload \in {UploadOf(f, "free") : f \in {<<>>, <<"old">>}}

\* ReserveUploadPart(partNumber)
Reserve(partNumber, created, removed) ==
    /\ upload.cu.pc = "idle"
    /\ LET r == ReserveUploadPart(upload.dir, partNumber, created, removed)
       IN upload' = [upload EXCEPT
                       !.dir = r.dir,
                       !.last = LastCall("ReserveUploadPart", partNumber, r.err, <<>>)]
    /\ UNCHANGED <<focus, backend, stores, queue, ok, confirmedKinds, closed, rlocks,
                   applied, call, session, sync, stream, collections, health>>

\* UploadPart(partNumber, body)
Upload(partNumber, body, written, removed, renamed) ==
    /\ upload.cu.pc = "idle"
    /\ LET r == UploadPart(upload.dir, partNumber, body, written, removed, renamed)
       IN upload' = [upload EXCEPT
                       !.dir = r.dir,
                       !.uploaded = IF r.err = Nil THEN @ \cup {partNumber} ELSE @,
                       !.last = LastCall("UploadPart", partNumber, r.err, <<>>)]
    /\ UNCHANGED <<focus, backend, stores, queue, ok, confirmedKinds, closed, rlocks,
                   applied, call, session, sync, stream, collections, health>>

\* ListParts
List ==
    /\ upload.cu.pc = "idle"
    /\ upload' = [upload EXCEPT
                    !.last = LastCall("ListParts", 0, Nil, ListParts(upload.dir))]
    /\ UNCHANGED <<focus, backend, stores, queue, ok, confirmedKinds, closed, rlocks,
                   applied, call, session, sync, stream, collections, health>>

\* another process (the upload completer) takes the lock of the session file
OtherLocks ==
    /\ upload.lock = "free"
    /\ upload.cu.pc # "done"
    /\ upload' = [upload EXCEPT !.lock = "other"]
    /\ UNCHANGED <<focus, backend, stores, queue, ok, confirmedKinds, closed, rlocks,
                   applied, call, session, sync, stream, collections, health>>

\* the other process gives the lock back
OtherUnlocks ==
    /\ upload.lock = "other"
    /\ upload.cu.pc # "done"
    /\ upload' = [upload EXCEPT !.lock = "free", !.cu.held = FALSE]
    /\ UNCHANGED <<focus, backend, stores, queue, ok, confirmedKinds, closed, rlocks,
                   applied, call, session, sync, stream, collections, health>>

\* CompleteUpload up to its first try of the lock: checkUpload, the opening
\* of the session file with O_RDWR|O_CREATE|O_TRUNC, FSTryWriteLock
CompleteOpen(parts, valid, opened, fails) ==
    /\ upload.cu.pc = "idle"
    /\ LET started == Completion("loop", parts, 0, Nil, Nil, upload.sessionFile,
                                 upload.lock = "other", FALSE)
           try == FSTryWriteLock(upload.lock, fails)
       IN IF ~valid
          THEN upload' = [upload EXCEPT
                            !.cu = [started EXCEPT !.pc = "done",
                                                   !.result = ErrBadParameter]]
          ELSE IF ~opened
          THEN upload' = [upload EXCEPT
                            !.cu = [started EXCEPT !.pc = "done",
                                                   !.result = ErrUpstream]]
          ELSE upload' = [upload EXCEPT
                            !.sessionFile = <<>>,
                            !.lock = try.lock,
                            !.cu = [started EXCEPT !.err = try.err,
                                                   !.locked = try.err = Nil]]
    /\ UNCHANGED <<focus, backend, stores, queue, ok, confirmedKinds, closed, rlocks,
                   applied, call, session, sync, stream, collections, health>>

\* one turn of the retry loop of CompleteUpload, or the test that follows
\* the loop: cancelled says that the context is done when the handler waits
CompleteLoop(cancelled, fails) ==
    /\ upload.cu.pc = "loop"
    /\ LET cu == upload.cu
           try == FSTryWriteLock(upload.lock, fails)
       IN IF cu.i < 3 /\ cu.err = ErrUnsuccessfulLockTry
          THEN IF cancelled
               THEN upload' = [upload EXCEPT !.cu.pc = "done", !.cu.result = Nil]
               ELSE upload' = [upload EXCEPT
                                 !.lock = try.lock,
                                 !.cu.i = cu.i + 1,
                                 !.cu.err = try.err,
                                 !.cu.locked = try.err = Nil]
          ELSE IF cu.err # Nil
          THEN upload' = [upload EXCEPT !.cu.pc = "done", !.cu.result = cu.err]
          ELSE upload' = [upload EXCEPT !.cu.pc = "locked"]
    /\ UNCHANGED <<focus, backend, stores, queue, ok, confirmedKinds, closed, rlocks,
                   applied, call, session, sync, stream, collections, health>>

\* CompleteUpload holding the lock: the parts are sorted and combined into
\* the session file, OnBeforeComplete is called, the upload directory is
\* removed, and the deferred function gives the lock back
CompleteCombine(beforeComplete, removed) ==
    /\ upload.cu.pc = "locked"
    /\ LET c == combineParts(<<>>, PartNames(upload.cu.parts), upload.dir)
           result == IF c.err # Nil THEN c.err
                     ELSE IF ~beforeComplete THEN ErrUpstream
                     ELSE Nil
       IN upload' = [upload EXCEPT
                       !.sessionFile = c.dst,
                       !.lock = "free",
                       !.dir = IF result = Nil /\ removed THEN {} ELSE @,
                       !.cu.pc = "done",
                       !.cu.result = result]
    /\ UNCHANGED <<focus, backend, stores, queue, ok, confirmedKinds, closed, rlocks,
                   applied, call, session, sync, stream, collections, health>>

\* the lists of distinct part numbers a caller hands to CompleteUpload
PartLists ==
    {parts \in UNION {[1..m -> PartNumbers] : m \in 0..MaxPart} :
        \A i, j \in 1..Len(parts) : i # j => parts[i] # parts[j]}

NextUpload ==
    \/ \E n \in PartNumbers, created, removed \in BOOLEAN : Reserve(n, created, removed)
    \/ \E n \in PartNumbers, body \in Bodies, written, removed, renamed \in BOOLEAN :
          Upload(n, body, written, removed, renamed)
    \/ List
    \/ OtherLocks
    \/ OtherUnlocks
    \/ \E parts \in PartLists, valid, opened, fails \in BOOLEAN :
          CompleteOpen(parts, valid, opened, fails)
    \/ \E cancelled, fails \in BOOLEAN : CompleteLoop(cancelled, fails)
    \/ \E beforeComplete, removed \in BOOLEAN : CompleteCombine(beforeComplete, removed)

SpecUpload == InitUpload /\ [][NextUpload]_vars

(***************************************************************************)
(* Paging properties.                                                      *)
(***************************************************************************)
\* the resources of the store in focus that a session's request selects
Selected(req) ==
    SelectSeq(SortByKey(stores[focus], focus),
              LAMBDA r : MatchLabels(req, r) /\ MatchHost(req, r))

\* a session has collected a prefix of the sequence all, is finished exactly
\* when it has collected all of it, and otherwise holds as its cursor the
\* key of the first resource not collected yet
PrefixOf(all) ==
    /\ session.status # "failed"
    /\ Len(session.acc) <= Len(all)
    /\ session.acc = SubSeq(all, 1, Len(session.acc))
    /\ session.status = "finished" => session.acc = all
    /\ session.status = "open" =>
          /\ Len(session.acc) < Len(all)
          /\ session.cursor = KeyOf(focus, all[Len(session.acc) + 1])

\* C1: pagination completeness of ListRoles and ListWindowsDesktopServices.
\* With no filter, whatever the store holds and whatever the page size,
\* calling again with the previous NextKey until it is empty collects every
\* resource of the store exactly once in ascending key order: after each
\* page the session holds a prefix of the sorted store, and it ends holding
\* all of it.
C1_PaginationComplete ==
    (/\ session.op \in {"ListRoles", "ListWindowsDesktopServices"}
     /\ session.req.labels = NoLabel
     /\ session.pages > 0)
    => PrefixOf(SortByKey(stores[focus], focus))

\* five roles collected in three pages of two
C1_Witness ==
    /\ session.op = "ListRoles"
    /\ session.req.labels = NoLabel
    /\ session.req.limit = 2
    /\ session.status = "finished"
    /\ session.pages = 3
    /\ Len(session.acc) = 5

\* C2: ListWindowsDesktops pages without gap or duplicate. When a page
\* fills, NextKey is the key of the desktop the page stopped at, so a session
\* collects, in ascending key order, exactly the desktops that match its
\* filters.
C2_DesktopPaginationComplete ==
    (session.op = "ListWindowsDesktops" /\ session.pages > 0)
    => PrefixOf(Selected(session.req))

\* the names of the services of a response
ItemNames(resp) == [i \in 1..Len(resp.items) |-> resp.items[i].val.name]

\* a ListWindowsDesktopServices call served from the cache has returned
ServedServices ==
    /\ call.pc = "done"
    /\ call.op = "ListWindowsDesktopServices"
    /\ call.path = "cache"
    /\ call.resp.err = Nil

\* C3 as stated: the NextKey of a full page of ListWindowsDesktopServices is
\* the pagination key of the last service emitted in that page.
C3_NextKeyIsLastEmitted ==
    (ServedServices /\ call.resp.nextKey # Empty)
    => call.resp.nextKey = ItemNames(call.resp)[Len(call.resp.items)]

\* the pages of a session over services 1..5 with limit 2
SvcScenario ==
    (/\ session.op = "ListWindowsDesktopServices"
     /\ session.req.limit = 2
     /\ SortByKey(stores[focus], focus) =
          [i \in 1..5 |-> Res(KindWindowsDesktopService, Name(i), Empty, "dev")])
    => /\ session.pages = 1 =>
            /\ session.acc = SubSeq(SortByKey(stores[focus], focus), 1, 2)
            /\ session.cursor = Name(3)
       /\ session.pages = 2 =>
            /\ session.acc = SubSeq(SortByKey(stores[focus], focus), 1, 4)
            /\ session.cursor = Name(5)
       /\ session.pages = 3 =>
            /\ session.acc = SortByKey(stores[focus], focus)
            /\ session.cursor = Empty
            /\ session.status = "finished"

\* C3 amended: a page of ListWindowsDesktopServices is the first pageSize
\* services at or after StartKey; when more remain, NextKey is the pagination
\* key of the first service NOT emitted, and the call that takes it as
\* StartKey begins with that service. Over services 1..5 with limit 2 the
\* pages are 1,2 with NextKey 3, then 3,4 with NextKey 5, then 5 with an
\* empty NextKey.
C3_NextKeyIsFirstOmitted ==
    /\ ServedServices =>
         LET seq == StoreResources(stores[focus], focus, call.req.startKey)
             n == Len(call.resp.items)
         IN /\ n <= Len(seq)
            /\ Vals(call.resp.items) = SubSeq(seq, 1, n)
            /\ call.resp.nextKey = Empty => n = Len(seq)
            /\ call.resp.nextKey # Empty =>
                  /\ n < Len(seq)
                  /\ call.resp.nextKey = GetPaginationKey(seq[n + 1])
    /\ SvcScenario

\* the second page of the scenario: it starts at service 3, the cursor
C3_Witness ==
    /\ ServedServices
    /\ call.req.limit = 2
    /\ call.req.startKey = Name(3)
    /\ ItemNames(call.resp) = <<Name(3), Name(4)>>
    /\ call.resp.nextKey = Name(5)
    /\ Cardinality(stores[focus]) = 5

(***************************************************************************)
(* Fallback properties.                                                    *)
(***************************************************************************)
\* a call has returned on the fallback path and its result is untouched
FellBack ==
    /\ call.pc = "done"
    /\ call.path = "fallback"
    /\ ~call.mutated

\* the accessor made exactly one backend call, the operation uop with the
\* caller's arguments, and returned its result or error as it was
Forwarded(uop) ==
    /\ call.backendCalls = 1
    /\ call.upOp = uop
    /\ call.upReq = call.req
    /\ call.resp = call.up

C6_NoMutationLeak == [][stores' # stores => call' = call]_vars

\* the caller changed the app it was returned from the cache, the store
\* still holds the app as it was
C6_Witness ==
    /\ call.pc = "done"
    /\ call.op = "GetApp"
    /\ call.path = "cache"
    /\ call.mutated
    /\ \E x \in stores[KindApp] :
          /\ x.name = call.req.name
          /\ x.labels # call.resp.items[1].val.labels

\* a GetX call has returned
GotX ==
    /\ call.pc = "done"
    /\ call.op \in GetOps
    /\ call.path \in {"cache", "fallback"}
    /\ ~call.mutated

\* the entries of the store in focus, and of the backend, named as requested
StoredAs(req) == {x \in stores[focus] : x.name = req.name}
HeldAs(req) == {x \in backend : x.name = req.name}

\* C7 as stated: GetX fails with NotFound only if the name is absent from
\* both the store and the backend (the backend call, if one was made, did not
\* itself fail).
C7_NotFoundOnlyIfAbsent ==
    (GotX /\ call.resp.err = ErrNotFound /\ call.up.err # ErrUpstream)
    => StoredAs(call.req) = {} /\ HeldAs(call.req) = {}

\* C7 amended: served from the cache, GetDatabase, GetApp,
\* GetKubernetesCluster and GetWindowsDesktopService never ask the backend:
\* they return a copy of the stored resource, or NotFound when the store
\* lacks the name, whether or not the backend holds it. GetRole alone asks
\* the backend after a miss and returns the backend's role if that call
\* succeeds, NotFound otherwise. On the fallback path GetX returns the
\* backend's answer.
C7_NotFoundFromCache ==
    GotX =>
      IF call.path = "fallback" THEN call.resp = call.up
      ELSE IF call.backendCalls = 0
      THEN /\ call.op # "GetRole" => StoredAs(call.req) # {} \/ call.resp = Fail(ErrNotFound)
           /\ call.op = "GetRole" => StoredAs(call.req) # {}
           /\ \A x \in StoredAs(call.req) : call.resp = Resp(<<Copy(x)>>, Empty, Nil)
      ELSE /\ call.op = "GetRole"
           /\ call.backendCalls = 1
           /\ call.resp = IF call.up.err = Nil THEN call.up ELSE Fail(ErrNotFound)

\* GetDatabase answers NotFound from a healthy cache while the backend holds
\* the database
C7_Witness ==
    /\ GotX
    /\ call.op = "GetDatabase"
    /\ call.path = "cache"
    /\ call.resp.err = ErrNotFound
    /\ HeldAs(call.req) # {}

\* a GetX call was served from the store, which has not changed since
ServedX ==
    /\ GotX
    /\ call.path = "cache"
    /\ call.backendCalls = 0

\* C8: round trip. After a Put event for resource R was applied, a GetX of
\* R's name served from the cache returns a value equal to R; the Put has
\* replaced the entry stored under the same key, every store holding one
\* entry per key.
C8_RoundTrip ==
    /\ \A k \in Kinds : UniqueKeys(stores[k], k)
    /\ (ServedX /\ applied.type = "put" /\ applied.res.name = call.req.name)
       => call.resp = Resp(<<Copy(applied.res)>>, Empty, Nil)

\* the Put replaced an earlier version of the database, GetDatabase returns
\* the later one
C8_Witness ==
    /\ ServedX
    /\ call.op = "GetDatabase"
    /\ applied.type = "put"
    /\ applied.res.name = call.req.name
    /\ applied.displaced # {}
    /\ call.resp.items[1].val = applied.res

\* the header describes the resource x
Describes(hdr, x) == x.name = hdr.name /\ x.hostID = hdr.description

\* C9: delete tombstone. For every collection, a Delete event that carries
\* the header alone removes the store entry of the resource the header
\* describes and no other entry; afterwards a GetX of that name served from
\* the cache returns NotFound.
C9_DeleteTombstone ==
    applied.type = "delete" =>
      /\ \A x \in applied.displaced : Describes(applied.hdr, x)
      /\ \A x \in stores[applied.kind] : ~Describes(applied.hdr, x)
      /\ (ServedX /\ call.req.name = applied.hdr.name)
           => call.resp = Fail(ErrNotFound)

\* C10: unpaged listing. A GetXs served from the cache returns one copy of
\* each resource of the store in ascending key order, and that is the
\* backend's set once every event has been applied; GetRole of a name the
\* backend no longer holds is NotFound then.
C10_UnpagedListing ==
    /\ (/\ call.pc = "done"
        /\ call.path = "cache"
        /\ ~call.mutated
        /\ call.op \in {"GetRoles", "GetDatabases", "GetApps", "GetKubernetesClusters",
                        "GetWindowsDesktopServices"})
       => /\ call.resp = Resp(Copies(SortByKey(stores[focus], focus)), Empty, Nil)
          /\ queue = <<>> => stores[focus] = backend
    /\ (/\ call.pc = "done"
        /\ call.path = "cache"
        /\ call.op = "GetRole"
        /\ queue = <<>>
        /\ HeldAs(call.req) = {})
       => call.resp = Fail(ErrNotFound)

\* two roles synced, the second one deleted: GetRoles returns the first
C10_Witness ==
    /\ call.pc = "done"
    /\ call.op = "GetRoles"
    /\ call.path = "cache"
    /\ applied.type = "delete"
    /\ applied.hdr.name = Name(2)
    /\ queue = <<>>
    /\ Len(call.resp.items) = 1
    /\ call.resp.items[1].val.name = Name(1)

(***************************************************************************)
(* Shutdown and the read lock.                                             *)
(***************************************************************************)
\* C11: closed is terminal. A closed coordinator stays closed and does not
\* become ok again, and every accessor call that starts after the close,
\* ListResources included, returns the "cache is closed" error at once,
\* having taken no lock, read no store and called no backend.
C11_ClosedIsTerminal ==
    [][/\ closed => closed' /\ (ok' => ok)
       /\ (closed /\ call.pc = "idle" /\ call'.pc # "idle")
           => /\ call'.pc = "done"
              /\ call'.resp = Fail(ErrClosed)
              /\ ~call'.storeRead
              /\ call'.backendCalls = 0
              /\ rlocks' = rlocks
              /\ stores' = stores]_vars

\* ListResources called on a closed cache that was ok
C11_Witness ==
    /\ closed
    /\ ok
    /\ call.pc = "done"
    /\ call.op = "ListResources"
    /\ call.resp = Fail(ErrClosed)

\* the accessor calls that have not returned yet
InFlight == IF call.pc \in {"cache", "fallback", "miss"} THEN 1 ELSE 0

\* C12: Release is effective exactly once. However often the Release of a
\* guard is called (GetRole calls it on a miss and again, deferred, at its
\* return), the read lock is given back once: the number of holders of the
\* read lock is never below zero nor above the number of calls in flight,
\* and the lock is held exactly while the guard of the call holds it.
C12_ReleaseOnce ==
    /\ rlocks >= 0
    /\ rlocks <= InFlight
    /\ call.locked <=> rlocks = 1

\* GetRole has returned from a miss: two calls of Release, the lock is free
C12_Witness ==
    /\ call.pc = "done"
    /\ call.op = "GetRole"
    /\ call.path = "cache"
    /\ call.backendCalls = 1
    /\ call.storeRead
    /\ rlocks = 0

\* an event waits for the event-apply loop of a cache that is watching
EventWaits == ok /\ ~closed /\ queue # <<>>

\* C13: no read lock leaks. Whatever way an accessor returns (hit, miss,
\* filter or predicate error, fallback, closed), the read lock taken for the
\* call is free when the call has returned, so that with no reader in
\* flight the event-apply loop can take the write lock for a waiting event.
C13_NoLockLeak ==
    /\ call.pc \in {"idle", "done"} => rlocks = 0 /\ ~call.locked
    /\ (call.pc = "idle" /\ EventWaits) => ENABLED ApplyEvent

\* ListResources has returned from its fallback while an event waits
C13_Witness ==
    /\ call.pc = "done"
    /\ call.op = "ListResources"
    /\ call.path = "fallback"
    /\ call.backendCalls = 1
    /\ EventWaits
    /\ rlocks = 0

\* C14: no read lock is held over a backend call. While the fallback call
\* of ListResources or of a per-kind accessor, or the backend lookup of
\* GetRole after a miss, is in progress, the call holds no read lock, and a
\* waiting event can be applied meanwhile.
C14_NoLockOverBackendCall ==
    call.pc \in {"fallback", "miss"} =>
      /\ rlocks = 0
      /\ ~call.locked
      /\ EventWaits => ENABLED ApplyEvent

\* GetRole missed and is about to ask the backend while an event waits
C14_Witness ==
    /\ call.pc = "miss"
    /\ call.op = "GetRole"
    /\ EventWaits
    /\ rlocks = 0

(***************************************************************************)
(* Page sizes, kinds, filters and predicates of the list accessors.        *)
(***************************************************************************)
\* a list call served from the cache has returned without error
ServedList(ops) ==
    /\ call.pc = "done"
    /\ call.op \in ops
    /\ call.path = "cache"
    /\ call.resp.err = Nil

\* a page of at most n items, of exactly n when a NextKey says more remain
PageOf(n) ==
    /\ Len(call.resp.items) <= n
    /\ call.resp.nextKey # Empty => Len(call.resp.items) = n

\* C15: page size clamping in ListRoles, ListWindowsDesktopServices and
\* ListWindowsDesktops. A limit that is not positive or exceeds the default
\* chunk size is replaced by the default: a page served from the cache never
\* holds more than the effective page size, and holds exactly that many
\* when more remain.
C15_PageSizeClamped ==
    ServedList({"ListRoles", "ListWindowsDesktopServices", "ListWindowsDesktops"})
    => PageOf(IF call.req.limit <= 0 \/ call.req.limit > DefaultChunkSize
              THEN DefaultChunkSize ELSE call.req.limit)

\* a limit above the default: the page of desktops is cut at the default
C15_Witness ==
    /\ ServedList({"ListWindowsDesktops"})
    /\ call.req.limit > DefaultChunkSize
    /\ Len(call.resp.items) = DefaultChunkSize
    /\ call.resp.nextKey # Empty

\* C16 as stated: ListResources served from the cache never returns more
\* than the default chunk size of resources, whatever the limit.
C16_ListResourcesClamped ==
    ServedList({"ListResources"}) => Len(call.resp.items) <= DefaultChunkSize

\* C16 amended: ListResources served from the cache replaces by the default
\* a limit that is not positive, and takes a positive limit as it is, also
\* above the default; a page holds at most that many resources.
C16_ListResourcesDefaultsOnly ==
    ServedList({"ListResources"})
    => PageOf(IF call.req.limit <= 0 THEN DefaultChunkSize ELSE call.req.limit)

\* a limit above the default: ListResources returns that many services
C16_Witness ==
    /\ ServedList({"ListResources"})
    /\ call.req.type = KindWindowsDesktopService
    /\ call.req.limit > DefaultChunkSize
    /\ Len(call.resp.items) = call.req.limit

\* ListResources served from the cache has returned for a kind that
\* listResources does not walk
ServedUnlisted ==
    /\ call.pc = "done"
    /\ call.op = "ListResources"
    /\ call.path = "cache"
    /\ call.req.type \notin ListResourcesKinds

\* C17 as stated: on a cache that is ok and has the kind confirmed,
\* ListResources returns NotImplemented for every resource type but database
\* server, database service, app server, node, Windows desktop service and
\* Kubernetes server.
C17_NotImplemented == ServedUnlisted => call.resp = Fail(ErrNotImplemented)

\* C17 amended: for those resource types ListResources never returns a
\* successful response: it returns NotImplemented, unless the predicate
\* expression does not parse, in which case the parse error is returned
\* before the resource type is looked at.
C17_NotImplementedAfterParse ==
    ServedUnlisted =>
      call.resp = IF call.req.pred # PredNone /\ ParseFails(call.req)
                  THEN Fail(ErrBadParameter)
                  ELSE Fail(ErrNotImplemented)

\* roles are confirmed and asked of ListResources
C17_Witness ==
    /\ ServedUnlisted
    /\ call.req.type = KindRole
    /\ KindRole \in confirmedKinds
    /\ call.req.pred = PredNone
    /\ call.resp = Fail(ErrNotImplemented)

\* C18: ListResources decides between cache and fallback from ok and the
\* confirmation of the requested kind alone: it serves from the cache
\* exactly when ok holds and the requested resource type is in
\* confirmedKinds, whatever other kinds are confirmed.
C18_RequestedKindDecides ==
    (call.op = "ListResources" /\ call.pc # "idle")
    => /\ call.path \in {"cache", "fallback"}
       /\ call.path = "cache" <=> (ok /\ call.req.type \in confirmedKinds)

\* served from the cache while the requested kind alone is confirmed
C18_Witness ==
    /\ ServedList({"ListResources"})
    /\ confirmedKinds = {focus}
    /\ call.req.type = focus
    /\ Len(call.resp.items) > 0

\* C19: every resource a list operation returns from the cache satisfies
\* the filter of the request: each item of ListWindowsDesktopServices,
\* ListWindowsDesktops and ListResources matches the requested labels (and
\* the desktop filter), and what does not match does not count toward the
\* page.
C19_ItemsMatchFilter ==
    ServedList({"ListWindowsDesktopServices", "ListWindowsDesktops", "ListResources"})
    => \A i \in 1..Len(call.resp.items) :
          /\ MatchLabels(call.req, call.resp.items[i].val)
          /\ MatchHost(call.req, call.resp.items[i].val)

\* C20: a malformed predicate. The step that serves from the cache a
\* ListWindowsDesktopServices, ListWindowsDesktops or ListResources request
\* whose predicate expression does not parse returns the error and no item,
\* gives the read lock back and leaves the stores and the coordinator state
\* as they are.
C20_MalformedPredicate ==
    [][(/\ call.pc = "cache"
        /\ call.op \in {"ListWindowsDesktopServices", "ListWindowsDesktops",
                        "ListResources"}
        /\ call.req.pred = PredMalformed
        /\ call'.pc # "cache")
       => /\ call'.pc = "done"
          /\ call'.resp = Fail(ErrBadParameter)
          /\ rlocks' = 0
          /\ UNCHANGED <<stores, ok, confirmedKinds, closed, queue, backend>>]_vars

\* ListWindowsDesktops over a store that holds desktops fails to parse
C20_Witness ==
    /\ call.pc = "done"
    /\ call.op = "ListWindowsDesktops"
    /\ call.path = "cache"
    /\ call.req.pred = PredMalformed
    /\ call.resp = Fail(ErrBadParameter)
    /\ stores[KindWindowsDesktop] # {}
    /\ rlocks = 0

(***************************************************************************)
(* Readiness of a collection.                                              *)
(***************************************************************************)
\* the readiness of the collection of kind k: CLOSED once the coordinator
\* has shut down, CONFIRMED while the cache is ok and the kind's watch is
\* confirmed, COLD before the first fetch, SYNCING otherwise
Phase(k) ==
    IF closed THEN "CLOSED"
    ELSE IF ok /\ k \in confirmedKinds THEN "CONFIRMED"
    ELSE IF sync.phase = "cold" THEN "COLD"
    ELSE "SYNCING"

\* the transitions of the readiness state machine
Transitions ==
    {<<"COLD", "SYNCING">>, <<"SYNCING", "CONFIRMED">>, <<"CONFIRMED", "SYNCING">>}
    \cup {<<p, "CLOSED">> : p \in {"COLD", "SYNCING", "CONFIRMED"}}

\* C21: the readiness of every collection changes only along COLD ->
\* SYNCING, SYNCING -> CONFIRMED, CONFIRMED -> SYNCING and any state ->
\* CLOSED, never out of CLOSED, and a kind is in confirmedKinds exactly
\* while its collection is CONFIRMED
C21_ReadinessStateMachine ==
    /\ [](\A k \in Kinds : k \in confirmedKinds <=> Phase(k) = "CONFIRMED")
    /\ [][\A k \in Kinds :
            Phase(k)' # Phase(k) => <<Phase(k), Phase(k)'>> \in Transitions]_vars

\* the stream was lost on a cache that had fetched resources: the kind is
\* SYNCING again, its old store still in place
C21_Witness ==
    /\ Phase(focus) = "SYNCING"
    /\ sync.phase = "fetching"
    /\ stores[focus] # {}
    /\ confirmedKinds = {}

(***************************************************************************)
(* The event stream.                                                       *)
(***************************************************************************)
RECURSIVE Fold(_, _, _)
\* the store of kind k after the events evs, taken in their order
Fold(st, k, evs) ==
    IF evs = <<>> THEN st
    ELSE Fold(IF WellFormed(Head(evs)) /\ Head(evs).kind = k
              THEN ApplyTo(st, k, Head(evs))
              ELSE st,
              k, Tail(evs))

\* the events of the observed stream that the apply loop has taken: all
\* that were sent but those still waiting
Taken == SubSeq(stream.log, 1, Len(stream.log) - Len(queue))

\* C22: the events of a kind are applied in the order the stream delivered
\* them: the store is at every moment the last fetched snapshot with the
\* events taken so far folded over it in delivery order, and so with all
\* events of the stream once it is drained
C22_AppliedInOrder ==
    stream.observed =>
        /\ Len(queue) <= Len(stream.log)
        /\ queue = SubSeq(stream.log, Len(stream.log) - Len(queue) + 1, Len(stream.log))
        /\ stores[focus] = Fold(stream.snapshot, focus, Taken)

\* a put and then the delete of the same resource were delivered and the
\* stream is drained: the resource is gone
C22_Witness ==
    /\ stream.observed /\ ok
    /\ queue = <<>>
    /\ Len(stream.log) >= 2
    /\ stream.log[1].type = "put"
    /\ stream.log[2] = DeleteEvent(stream.log[1].res)
    /\ applied.type = "delete"
    /\ stream.log[1].res \notin stores[focus]

(***************************************************************************)
(* Readers and the event-apply loop.                                       *)
(***************************************************************************)
\* the kind whose store the call in progress reads
CallKind == GuardKind(call.op, call.req)

\* the stores as they were when the call took its guard
StoresSeen == [stores EXCEPT ![CallKind] = call.seen]

\* store st of kind k reflects the event applied last
Reflects(st, k) ==
    /\ applied.type = "put" /\ applied.kind = k => applied.res \in st
    /\ applied.type = "delete" /\ applied.kind = k =>
          StoreGet(st, k, KeyOf(k, HeaderTransform(k, applied.hdr))).err = ErrNotFound

\* C23: from the moment a call finds the cache readable until it has built
\* its response it holds the read lock, the cache stays ok and the kind
\* confirmed, no event is applied, and the response is built from the store
\* as it was when the guard was taken, which reflects the event applied last
\* before that
C23_ReadSnapshot ==
    /\ call.pc = "cache" =>
          /\ call.locked /\ rlocks > 0
          /\ ok /\ ~closed /\ CallKind \in confirmedKinds
          /\ stores[CallKind] = call.seen
          /\ Reflects(call.seen, CallKind)
    /\ call.pc = "done" /\ call.path = "cache" /\ call.backendCalls = 0
       /\ ~call.mutated =>
          /\ call.resp = Accessor(call.op, TRUE, StoresSeen, call.req, NoUp)
          /\ Reflects(call.seen, CallKind)

\* ListResources, served from the cache, returns the resource of the event
\* applied just before it took the lock
C23_Witness ==
    /\ call.pc = "done" /\ call.path = "cache"
    /\ call.op = "ListResources"
    /\ applied.type = "put" /\ applied.kind = call.req.type
    /\ call.resp.err = Nil
    /\ Vals(call.resp.items) = <<applied.res>>

\* the values a response holds
Got == {call.resp.items[i].val : i \in 1..Len(call.resp.items)}

\* the entries of store st that the request of the call selects
Wanted(st) == {x \in st : MatchHost(call.req, x)}

\* C24: what a GetXs call served from the cache returns is the content of
\* the store in one state between two event applications: the store did not
\* change from the guard to the response, the result holds one entry per
\* key, and of the event applied last it holds the whole effect, the
\* resource put and none of the entries the event displaced
C24_AtomicVisibility ==
    call.pc = "done" /\ call.path = "cache" /\ call.op \in GetAllOps
    /\ ~call.mutated /\ call.resp.err = Nil =>
        /\ Got = Wanted(call.seen)
        /\ Got = Wanted(stores[OpKind(call.op)])
        /\ UniqueKeys(Got, OpKind(call.op))
        /\ applied.kind = OpKind(call.op) =>
              /\ applied.displaced \cap Got = {}
              /\ applied.type = "put" /\ MatchHost(call.req, applied.res) =>
                    applied.res \in Got

\* a GetXs call served right after an event replaced an entry: it returns
\* the new entry and not the old one
C24_Witness ==
    /\ call.pc = "done" /\ call.path = "cache" /\ call.op \in GetAllOps
    /\ call.resp.err = Nil /\ ~call.mutated
    /\ applied.type = "put" /\ applied.kind = OpKind(call.op)
    /\ applied.displaced # {}
    /\ applied.res \in Got

(***************************************************************************)
(* Resync.                                                                 *)
(***************************************************************************)
\* a resync has just confirmed the kind in focus: no event was sent or
\* applied since
JustSynced ==
    /\ ok /\ focus \in confirmedKinds
    /\ sync.phase = "done"
    /\ queue = <<>> /\ applied = NoEvent

\* C25: when a resync has confirmed a kind, first or after a stream loss,
\* the store of the kind equals the set of resources the backend holds
C25_ResyncedStoreIsBackend == JustSynced => stores[focus] = backend

\* a coordinator whose stream broke, or whose fetch failed, and that is not
\* closed confirms the kind again
Recovers == (~ok /\ sync.phase # "cold") ~> (ok /\ focus \in confirmedKinds)

\* the stream breaks only on a cache that is ok, and leaves no kind
\* confirmed and a fetch under way
LostMeansResync ==
    [][ok /\ ~ok' /\ ~closed' => confirmedKinds' = {} /\ sync'.phase = "fetching"]_vars

\* C26: a fetch whose fetcher returns an error gives up the resync of the
\* kind: the step leaves the stores as they were and the kind unconfirmed,
\* no resync completes on an answer the fetcher refuses, and a read of a
\* kind begun while the kind is unconfirmed goes to the backend
C26_FetchErrorAborts ==
    /\ [](/\ sync.phase = "done" => sync.up = "ok"
          /\ sync.phase = "failed" =>
                sync.up \in {"error", "unexpected"} /\ focus \notin confirmedKinds)
    /\ [][sync.phase = "fetching" /\ sync'.phase = "failed" =>
            /\ stores' = stores
            /\ focus \notin confirmedKinds']_vars
    /\ [][call.pc = "idle" /\ call'.pc # "idle"
          /\ GuardKind(call'.op, call'.req) \notin confirmedKinds =>
            call'.path \in {"fallback", "closed"} /\ ~call'.locked]_vars

\* the database service fetcher met a resource of another type: the store
\* still is the one fetched before, not what the backend holds now, and a
\* read was answered by the backend
C26_Witness ==
    /\ sync.phase = "failed" /\ sync.up = "unexpected"
    /\ stores[focus] # {} /\ stores[focus] # backend
    /\ call.pc = "done" /\ call.path = "fallback" /\ call.backendCalls = 1
    /\ call.resp.err = Nil

\* C27: the apply loop takes an event it cannot apply off the stream and
\* leaves every store, ok, confirmedKinds and closed as they were; it can
\* always take the next event, and the store holds the effect of every
\* well-formed event taken, those that came after a bad one included
C27_BadEventSkipped ==
    /\ [][/\ ok /\ ok' /\ queue # <<>>
          /\ Len(queue') = Len(queue) - 1
          /\ ~WellFormed(Head(queue))
          => /\ queue' = Tail(queue)
             /\ UNCHANGED <<stores, ok, confirmedKinds, closed>>]_vars
    /\ [](/\ ok /\ ~closed /\ queue # <<>> /\ rlocks = 0 /\ ~Returning
            => ENABLED ApplyEvent
          /\ stream.observed =>
                stores[focus] = Fold(stream.snapshot, focus,
                                     SelectSeq(Taken, WellFormed)))

\* a bad event and then a put were delivered and taken: the resource put is
\* in the store
C27_Witness ==
    /\ stream.observed /\ ok /\ queue = <<>>
    /\ Len(stream.log) >= 2
    /\ ~WellFormed(stream.log[1])
    /\ stream.log[2].type = "put" /\ stream.log[2].kind = focus
    /\ applied.type = "put"
    /\ stream.log[2].res \in stores[focus]

(***************************************************************************)
(* Accessors and the state of the cache.                                   *)
(***************************************************************************)
\* C28: no step of an accessor call, the guard, the read of the store, the
\* backend call of a miss or of the fallback, an error return or the return
\* to the caller, changes a store, ok, confirmedKinds or closed
C28_AccessorsReadOnly ==
    [][call'.pc # call.pc => UNCHANGED <<stores, ok, confirmedKinds, closed>>]_vars

\* GetRole missed in the store and got the role from the backend: the store
\* still lacks it
C28_Witness ==
    /\ call.op = "GetRole" /\ call.pc = "done"
    /\ call.storeRead /\ call.backendCalls = 1
    /\ call.resp.err = Nil /\ Len(call.resp.items) = 1
    /\ StoreGet(stores[KindRole], KindRole, call.req.name).err = ErrNotFound

(***************************************************************************)
(* Construction.                                                           *)
(***************************************************************************)
\* the constructor of kind k fails exactly on a nil service, then returning
\* no collection, and otherwise returns a collection with an empty store
\* and the watch kind it was given
Validates(k) ==
    LET c == collections[k]
    IN /\ c.res.err # Nil <=> c.dep = Nil
       /\ c.dep = Nil => ~c.res.built /\ c.res.err = ErrBadParameter
       /\ c.dep # Nil => c.res.built /\ c.res.store = {} /\ c.res.watch = c.w

\* C29: every constructor that was called validates its service and, when
\* it fails, names the service of its collection in the error
C29_ConstructorValidates ==
    \A k \in BuiltKinds :
        collections[k].called =>
            /\ Validates(k)
            /\ collections[k].dep = Nil => collections[k].res.missing = Dependency(k)

\* every constructor that was called validates its service
ConstructorsValidate == \A k \in BuiltKinds : collections[k].called => Validates(k)

\* every constructor but those of the database service and Windows desktop
\* collections names its own service when it fails
OthersNameTheirService ==
    \A k \in BuiltKinds \ {KindDatabaseService, KindWindowsDesktop} :
        collections[k].called /\ collections[k].dep = Nil =>
            collections[k].res.missing = Dependency(k)

(***************************************************************************)
(* Per-host resources.                                                     *)
(***************************************************************************)
\* the per-host kinds whose store is indexed by name alone
ServerKinds == {KindDatabaseServer, KindAppServer, KindKubeServer}

\* the cache is ok, the kind in focus is confirmed and every event sent has
\* been applied
Drained == ok /\ focus \in confirmedKinds /\ queue = <<>>

\* the store of the kind in focus holds exactly the resources of the
\* backend, and so does the result of a GetXs call served from it
HoldsBackend ==
    /\ stores[focus] = backend
    /\ call.pc = "done" /\ call.path = "cache" /\ call.op \in GetAllOps
       /\ ~call.mutated /\ call.req.hostID = Empty => Got = backend

\* C30: database, application and Kubernetes servers of the same name on
\* different hosts are kept apart: once the events of the backend's puts
\* and deletes are applied the store holds every server the backend holds,
\* and GetDatabaseServers served from the cache returns them all
C30_PerHostDistinct == focus \in ServerKinds /\ Drained => HoldsBackend

\* Windows desktops, indexed by host ID and name, are kept apart
DesktopsDistinct == focus = KindWindowsDesktop /\ Drained => HoldsBackend

(***************************************************************************)
(* Paging with the multi-kind dispatcher.                                  *)
(***************************************************************************)
\* the session has collected the first entries of all, in their order
Collected(all) ==
    /\ Len(session.acc) <= Len(all)
    /\ session.acc = SubSeq(all, 1, Len(session.acc))

\* a ListResources session has collected, page after page, matching
\* resources of the store in ascending order of its index, none twice, and
\* when NextKey comes back empty it has collected all of them
ListResourcesPages ==
    (session.op = "ListResources" /\ session.pages > 0)
    => /\ session.status # "failed"
       /\ Collected(Selected(session.req))
       /\ session.status = "finished" => session.acc = Selected(session.req)

\* C31: pagination completeness of the multi-kind dispatcher. For every
\* kind listResources walks a store for, the per-host kinds included,
\* calling ListResources again with the previous NextKey until it is empty
\* returns every matching resource of the store exactly once in ascending
\* order of the store's index.
C31_DispatcherPaginationComplete == ListResourcesPages

\* the same for the kinds whose pagination key is the key of the store's
\* index: database services, Windows desktop services and nodes
NameKindsPaginationComplete == focus \notin HostKinds => ListResourcesPages

\* three nodes collected in three pages of one
NameKindsPaged ==
    /\ focus = KindNode
    /\ session.op = "ListResources"
    /\ session.req.limit = 1
    /\ session.status = "finished"
    /\ session.pages = 3
    /\ Len(session.acc) = 3

(***************************************************************************)
(* The value a delete header is turned into.                               *)
(***************************************************************************)
\* the value headerTransform gave the store for the delete event applied last
Tombstone == HeaderTransform(applied.kind, applied.hdr)

\* a value of the collection's own kind that carries the header's name, for
\* a per-host kind the header's description as its host ID, and nothing else
MinimalValue(k, hdr) ==
    Res(k, hdr.name, IF k \in HostKinds THEN hdr.description ELSE Empty, NoLabel)

\* C32: for every collection, headerTransform applied to a delete header
\* yields a value of the collection's own kind, with the header's name and,
\* for a per-host kind, the header's description as its host ID, and with no
\* other field taken from the header.
C32_HeaderTransformMinimal ==
    (applied.type = "delete" /\ applied.kind \in Kinds)
    => Tombstone = MinimalValue(applied.kind, applied.hdr)

\* the same for every collection but the one of database services
OtherHeaderTransformsMinimal ==
    (applied.type = "delete" /\ applied.kind \in Kinds \ {KindDatabaseService})
    => Tombstone = MinimalValue(applied.kind, applied.hdr)

\* the value made for a deleted database service has the header's name and
\* no host ID or payload, and removes the service from the store
DatabaseServiceTombstoneIsKey ==
    (applied.type = "delete" /\ applied.kind = KindDatabaseService)
    => /\ Tombstone = [MinimalValue(KindDatabaseService, applied.hdr)
                          EXCEPT !.kind = KindDatabase]
       /\ \A x \in stores[KindDatabaseService] : x.name # applied.hdr.name

(***************************************************************************)
(* GetRole on a miss.                                                      *)
(***************************************************************************)
\* a GetRole call that went to the store of a healthy cache
RoleCall == call.op = "GetRole" /\ call.path = "cache"

\* the store the call was given lacks the role asked for
RoleMissing == \A x \in call.seen : x.name # call.req.name

\* C33: GetRole on a healthy cache whose store lacks the name gives its
\* read guard back and then asks the backend once; it returns the backend's
\* role if the backend has it, and the store's NotFound if the backend call
\* fails for any reason. A store that has the name is answered from the
\* store alone, and a store error other than NotFound is returned whatever
\* the backend would say.
C33_GetRoleMiss ==
    /\ (RoleCall /\ call.pc = "miss")
       => RoleMissing /\ ~call.locked /\ rlocks = 0 /\ call.backendCalls = 0
    /\ (RoleCall /\ call.pc = "done" /\ ~call.mutated)
       => IF RoleMissing
          THEN /\ call.backendCalls = 1
               /\ call.upOp = "GetRole" /\ call.upReq.name = call.req.name
               /\ call.resp = IF call.up.err = Nil THEN call.up ELSE Fail(ErrNotFound)
          ELSE /\ call.backendCalls = 0
               /\ call.resp.err = Nil
    /\ \A up \in {Fail(ErrUpstream), Fail(ErrNotFound),
                   Resp(<<Item(Res(KindRole, Name(1), Empty, "dev"), FALSE)>>, Empty, Nil)} :
          GetRoleMiss(ErrUpstream, up) = Fail(ErrUpstream)

\* the store lacked the role, the backend call failed with another error,
\* GetRole answered NotFound
C33_Witness ==
    /\ RoleCall /\ call.pc = "done"
    /\ RoleMissing
    /\ call.up = Fail(ErrUpstream)
    /\ call.resp = Fail(ErrNotFound)

(***************************************************************************)
(* One page of ListRoles.                                                  *)
(***************************************************************************)
\* the roles the call's guard saw that match the filter of the request and
\* are named at or after its StartKey, in ascending name order
MatchingRoles ==
    SelectSeq(SortByKey(call.seen, KindRole),
              LAMBDA r : MatchLabels(call.req, r) /\ LexLeq(call.req.startKey, r.name))

\* the page size ListRoles uses for the limit of the request
RolePageSize ==
    IF call.req.limit <= 0 \/ call.req.limit > DefaultChunkSize
    THEN DefaultChunkSize ELSE call.req.limit

\* a ListRoles call served from the cache has built its response
RolesListed ==
    call.op = "ListRoles" /\ call.pc = "done" /\ call.path = "cache" /\ ~call.mutated

\* C34: ListRoles served from the cache returns, in ascending name order,
\* the first pageSize roles at or after StartKey that match the filter, the
\* roles the filter rejects not counting toward the page; NextKey is the
\* name of the first matching role left out, and is empty exactly when no
\* matching role is left out.
C34_ListRolesPage ==
    RolesListed
    => LET all == MatchingRoles
           n == IF Len(all) < RolePageSize THEN Len(all) ELSE RolePageSize
       IN /\ call.resp.err = Nil
          /\ Vals(call.resp.items) = SubSeq(all, 1, n)
          /\ call.resp.nextKey = IF Len(all) > n THEN all[n + 1].name ELSE Empty
          /\ call.resp.nextKey = Empty <=> Len(all) = n

\* a second page taken with a filter: it starts at the role the first page
\* named, and a role the filter rejects lies between the role returned and
\* the role NextKey names
C34_Witness ==
    /\ RolesListed
    /\ call.req.labels = "dev" /\ call.req.limit = 1
    /\ call.req.startKey = Name(3)
    /\ \E r \in call.seen : r.name = Name(4) /\ r.labels = "prod"
    /\ Len(call.resp.items) = 1
    /\ call.resp.items[1].val.name = Name(3)
    /\ call.resp.nextKey = Name(5)

(***************************************************************************)
(* Database health.                                                        *)
(***************************************************************************)
\* ServerStatus has returned for the checks the database stores
StatusGiven == health.op = "ServerStatus"

\* the stored checks other than the most recent one
OlderChecks == Tail(health.checks)

\* the most recent check succeeded and every older one, at least one, failed
OnlyLastSucceeded ==
    /\ Len(health.checks) >= 2
    /\ IsSuccess(health.checks[1])
    /\ \A i \in 1..Len(OlderChecks) : ~IsSuccess(OlderChecks[i])

\* the two most recent checks succeeded
LastTwoSucceeded ==
    /\ Len(health.checks) >= 2
    /\ IsSuccess(health.checks[1]) /\ IsSuccess(health.checks[2])

\* there are checks and all of them failed
AllFailed ==
    /\ health.checks # <<>>
    /\ \A i \in 1..Len(health.checks) : ~IsSuccess(health.checks[i])

\* C35: ServerStatus returns Warning when the most recent health check
\* succeeded and all the other checks failed, Healthy when the last two
\* checks succeeded, and Unhealthy when all checks failed.
C35_StatusByRecentChecks ==
    StatusGiven
    => /\ OnlyLastSucceeded => health.status = DatabaseServerStatusWarning
       /\ LastTwoSucceeded => health.status = DatabaseServerStatusHealthy
       /\ AllFailed => health.status = DatabaseServerStatusUnhealthy

\* ServerStatus returns Healthy when the last two checks succeeded and
\* Unhealthy when all checks failed, and it never returns Warning: a server
\* whose last check alone succeeded is Unhealthy
StatusNeverWarning ==
    StatusGiven
    => /\ LastTwoSucceeded => health.status = DatabaseServerStatusHealthy
       /\ AllFailed => health.status = DatabaseServerStatusUnhealthy
       /\ OnlyLastSucceeded => health.status = DatabaseServerStatusUnhealthy
       /\ health.status # DatabaseServerStatusWarning

\* the number of stored checks that succeeded, counted by their positions
Succeeded == Cardinality({i \in 1..Len(health.checks) : IsSuccess(health.checks[i])})

FirstN(seq, n) == SubSeq(seq, 1, IF Len(seq) < n THEN Len(seq) ELSE n)

\* C37: PrependHealthCheck keeps a bounded, newest-first history. After
\* PrependHealthCheck(db, c) the stored list is c followed by the checks
\* stored before in their order, cut to at most 3 checks, and the call ends
\* without a runtime failure.
C37_PrependBounded ==
    health.op = "PrependHealthCheck"
    => /\ ~health.panicked
       /\ health.checks = FirstN(<<health.check>> \o health.before, 3)

\* every PrependHealthCheck call ends in a runtime failure and leaves the
\* stored checks as they were
PrependAlwaysPanics ==
    health.op = "PrependHealthCheck"
    => health.panicked /\ health.checks = health.before

(***************************************************************************)
(* File session uploads.                                                   *)
(***************************************************************************)
\* the numbers of a set of parts, each once, in ascending order
Ascending(numbers) ==
    SelectSeq([i \in 1..MaxPart |-> i], LAMBDA n : n \in numbers)

\* ListParts has returned and no call was made on the upload since
PartsListed == upload.last.op = "ListParts" /\ upload.cu.pc = "idle"

Concatenation(parts, dir) ==
    LET asc == Ascending({parts[i] : i \in 1..Len(parts)})
    IN [i \in 1..Len(asc) |->
          IF Exists(dir, partFileName(asc[i]))
          THEN ReadFile(dir, partFileName(asc[i]))
          ELSE "missing"]

\* a step in which CompleteUpload returns
Returns == upload.cu.pc # "done" /\ upload'.cu.pc = "done"

\* when CompleteUpload returns nil, the session file holds the parts it was
\* given, in ascending order of their numbers
NilMeansCombined ==
    Returns /\ upload'.cu.result = Nil
    => upload'.sessionFile = Concatenation(upload.cu.parts, upload.dir)

\* C39: whenever CompleteUpload returns nil, the session file holds the
\* concatenation of all given parts in ascending part-number order, in
\* whatever order they were passed; and whenever it returns without having
\* obtained the file lock, the context having been cancelled while it
\* waited included, it returns an error.
C39_CompleteUploadResult ==
    [][/\ NilMeansCombined
       /\ Returns /\ ~upload'.cu.locked => upload'.cu.result # Nil]_vars

\* CompleteUpload returns an error when it gives up after its last try of
\* the lock or a try fails, and when it returns nil having taken the lock
\* the session file holds the given parts in ascending order; it returns nil
\* without the lock exactly when the context is cancelled while it waits
CompleteUploadResultButCancel ==
    [][/\ upload'.cu.locked => NilMeansCombined
       /\ Returns /\ ~upload'.cu.locked
          => \/ upload'.cu.result # Nil
             \/ /\ upload.cu.err = ErrUnsuccessfulLockTry
                /\ upload.cu.i < 3
                /\ upload'.sessionFile = <<>>]_vars

\* parts 2 and 1, passed in this order, were combined under the lock
CombinedInOrder ==
    /\ upload.cu.pc = "done" /\ upload.cu.result = Nil /\ upload.cu.locked
    /\ upload.cu.parts = <<2, 1>>
    /\ Len(upload.sessionFile) = 2
    /\ upload.sessionFile[1] # upload.sessionFile[2]

\* C40: CompleteUpload does not modify the session file unless it holds the
\* file's write lock. When another process holds the lock during the whole
\* attempt, the first try and the retries, the content of the file is the
\* same after CompleteUpload returns as before it was called.
C40_NoWriteWithoutLock ==
    upload.cu.pc = "done" /\ upload.cu.held
    => upload.sessionFile = upload.cu.before

\* without the lock CompleteUpload writes no part into the session file,
\* which it has emptied when it opened it; a process that holds the lock
\* throughout keeps CompleteUpload from taking it
NoPartWithoutLock ==
    /\ upload.cu.held => ~upload.cu.locked /\ upload.lock = "other"
    /\ upload.cu.pc = "done" /\ ~upload.cu.locked
       => upload.sessionFile \in {<<>>, upload.cu.before}

====
